---- MODULE Spec2Model ----
(***************************************************************************)
(* A model of httpencode: the HTTP/1.x header-section encoder.             *)
(*                                                                         *)
(* Bytes are the integers 0..255 and byte strings are sequences of them.   *)
(* Rust slices are indexed from 0; At and Slice keep the source's indices. *)
(* An Option is a sequence of length 0 (None) or 1 (Some).                 *)
(***************************************************************************)
EXTENDS Integers, Sequences, FiniteSets, TLC

VARIABLES
  input,    \* the argument handed to a validator or to a write_to
  op,       \* the function last applied to input ("none" before any)
  output,   \* what that function returned
  capacity, \* the destination handed to the builder (B: BufMut)
  start,    \* how the builder was started, with its arguments
  builder,  \* the HttpBuilder: its lifecycle phase and its buffer
  calls,    \* the header() calls made on the builder, with their results
  last      \* the result of the last builder operation

vars == <<input, op, output, capacity, start, builder, calls, last>>

(***************************************************************************)
(* Bytes                                                                   *)
(***************************************************************************)
TAB == 9
LF == 10
CR == 13
SP == 32
DQUOTE == 34
MINUS == 45
DOT == 46
SLASH == 47
ZERO == 48
COLON == 58
BACKSLASH == 92
LOWER_A == 97

Byte == 0..255

CRLF == <<CR, LF>>

None == <<>>
Some(x) == <<x>>

At(s, i) == s[i + 1]
Slice(s, from, to) == SubSeq(s, from + 1, to)

Min(S) == CHOOSE x \in S : \A y \in S : x <= y

(***************************************************************************)
(* Bounds of the model                                                     *)
(***************************************************************************)
MaxLen == 5        \* longest byte string given to the value paths
MaxPad == 1        \* longest prefix and suffix around the byte under test
MaxHeaders == 2    \* header() calls on one builder
MaxCap == 18       \* largest remaining capacity of a fixed destination

RECURSIVE StringsUpTo(_, _)
StringsUpTo(alphabet, n) ==
  IF n = 0 THEN {<<>>}
  ELSE LET shorter == StringsUpTo(alphabet, n - 1)
       IN shorter \cup {Append(s, b) : s \in {t \in shorter : Len(t) = n - 1}, b \in alphabet}

(***************************************************************************)
(* The sink: bytes::BufMut with the FallibleBufMut extension (util.rs).    *)
(* A buffer is [bytes, growable, limit]: a Vec<u8> grows, a &mut [u8]      *)
(* holds limit bytes in all.  A result is [buf, res].                      *)
(***************************************************************************)
remaining_mut(buf) == buf.limit - Len(buf.bytes)

\* self.remaining_mut() < $size; a growable destination always has room.
lacks_room(buf, size) == ~buf.growable /\ remaining_mut(buf) < size

Ok(buf) == [buf |-> buf, res |-> "Ok"]
Err(buf) == [buf |-> buf, res |-> "InsufficientSpaceError"]
Panic(buf) == [buf |-> buf, res |-> "panic"]

\* The ? operator: go on with the buffer only when the step before returned Ok.
AndThen(r, F(_)) == IF r.res = "Ok" THEN F(r.buf) ELSE r

\* A put that fills what room there is before it reports the lack of it.
try_put_slice_partial(buf, src) ==
  IF lacks_room(buf, Len(src))
  THEN Err([buf EXCEPT !.bytes = @ \o SubSeq(src, 1, remaining_mut(buf))])
  ELSE Ok([buf EXCEPT !.bytes = @ \o src])

try_put_slice(buf, src) ==
  IF lacks_room(buf, Len(src))
  THEN Err(buf)
  ELSE Ok([buf EXCEPT !.bytes = @ \o src])

\* put_u8 without the capacity check in front of it.
try_put_u8_unchecked(buf, n) ==
  IF lacks_room(buf, 1)
  THEN Panic(buf)
  ELSE Ok([buf EXCEPT !.bytes = Append(@, n)])

try_put_u8(buf, n) ==
  IF lacks_room(buf, 1)
  THEN Err(buf)
  ELSE Ok([buf EXCEPT !.bytes = Append(@, n)])

Vec(bytes) == [bytes |-> bytes, growable |-> TRUE, limit |-> 0]
FixedBuf(bytes, limit) == [bytes |-> bytes, growable |-> FALSE, limit |-> limit]

(***************************************************************************)
(* writable.rs: the scanner for unquoted CRLFs                             *)
(***************************************************************************)
find_unquoted_crlf(bytes) == [inquotes |-> FALSE, offset |-> 0]

\* memchr3(b'\\', b'"', b'\r', &bytes[offset..]).map(|pos| pos + offset)
find_next(bytes, it) ==
  LET hits == {p \in it.offset..(Len(bytes) - 1) :
                 At(bytes, p) \in {BACKSLASH, DQUOTE, CR}}
  IN IF hits = {} THEN None ELSE Some(Min(hits))

\* An advance that does not clamp the offset to the length.
advance_to_unclamped(bytes, amount) == amount

\* An advance that stops on the last byte looked at.
advance_to_last_seen(bytes, amount) ==
  IF amount - 1 < Len(bytes) THEN amount - 1 ELSE Len(bytes)

\* self.offset = amount.min(self.bytes.len())
advance_to(bytes, amount) == IF amount < Len(bytes) THEN amount ELSE Len(bytes)

\* A scan in which a double quote leaves the flag as it is.
scan_arm_ignoring_quotes(bytes, it, pos) ==
  LET rest == Slice(bytes, pos, Len(bytes)) IN
  IF rest[1] = BACKSLASH
  THEN [item |-> None, panic |-> FALSE,
        it |-> [it EXCEPT !.offset = advance_to(bytes, (pos + 1) + 1)]]
  ELSE IF rest[1] = DQUOTE
  THEN [item |-> None, panic |-> FALSE,
        it |-> [it EXCEPT !.offset = advance_to(bytes, pos + 1)]]
  ELSE IF rest[1] = CR /\ Len(rest) >= 2 /\ rest[2] = LF /\ ~it.inquotes
  THEN [item |-> Some(pos), panic |-> FALSE,
        it |-> [it EXCEPT !.offset = advance_to(bytes, pos + 2)]]
  ELSE IF rest[1] = CR
  THEN [item |-> None, panic |-> FALSE,
        it |-> [it EXCEPT !.offset = advance_to(bytes, pos + 1)]]
  ELSE [item |-> None, panic |-> TRUE, it |-> it]

\* One turn of the while loop of next() at the position find_next gave:
\* the match on &bytes[pos..], then the advance_to that follows it.
scan_arm(bytes, it, pos) ==
  LET rest == Slice(bytes, pos, Len(bytes)) IN
  IF rest[1] = BACKSLASH
  THEN [item |-> None, panic |-> FALSE,
        it |-> [it EXCEPT !.offset = advance_to(bytes, (pos + 1) + 1)]]
  ELSE IF rest[1] = DQUOTE
  THEN [item |-> None, panic |-> FALSE,
        it |-> [inquotes |-> ~it.inquotes, offset |-> advance_to(bytes, pos + 1)]]
  ELSE IF rest[1] = CR /\ Len(rest) >= 2 /\ rest[2] = LF /\ ~it.inquotes
  THEN [item |-> Some(pos), panic |-> FALSE,
        it |-> [it EXCEPT !.offset = advance_to(bytes, pos + 2)]]
  ELSE IF rest[1] = CR
  THEN [item |-> None, panic |-> FALSE,
        it |-> [it EXCEPT !.offset = advance_to(bytes, pos + 1)]]
  ELSE [item |-> None, panic |-> TRUE, it |-> it]

\* Iterator::next: [item, panic, it], item = None when the scan is over.
RECURSIVE next(_, _)
next(bytes, it) ==
  IF it.offset > Len(bytes)      \* &self.bytes[self.offset..] out of range
  THEN [item |-> None, panic |-> TRUE, it |-> it]
  ELSE LET found == find_next(bytes, it) IN
       IF found = None THEN [item |-> None, panic |-> FALSE, it |-> it]
       ELSE LET r == scan_arm(bytes, it, found[1]) IN
            IF r.panic \/ r.item # None THEN r ELSE next(bytes, r.it)

(***************************************************************************)
(* writable.rs: impl HttpWriteable for &[u8] and &str                      *)
(***************************************************************************)
\* The first match arm: the CRLF at idx is already followed by SP or TAB.
is_folded_space_only(data, idx) ==
  Len(data) - idx >= 3 /\ At(data, idx + 2) = SP

\* A match that never takes the first arm.
is_folded_never(data, idx) == FALSE

is_folded(data, idx) ==
  Len(data) - idx >= 3 /\ At(data, idx + 2) \in {SP, TAB}

\* The second match arm: copy up to and including the CRLF, then one tab.
fold_resume_at_lf(buf, data, prev, idx) ==
  AndThen(try_put_slice(buf, Slice(data, prev, idx + 1)),
          LAMBDA b : try_put_u8(b, TAB))

fold(buf, data, prev, idx) ==
  AndThen(try_put_slice(buf, Slice(data, prev, idx + 2)),
          LAMBDA b : try_put_u8(b, TAB))

RECURSIVE write_loop(_, _, _, _)
write_loop(buf, data, it, prev) ==
  LET r == next(data, it) IN
  IF r.panic THEN Panic(buf)
  ELSE IF r.item = None
  THEN IF prev > Len(data) THEN Panic(buf)               \* &data[prev..data.len()]
       ELSE try_put_slice(buf, Slice(data, prev, Len(data)))
  ELSE LET idx == r.item[1] IN
       IF idx > Len(data) THEN Panic(buf)                \* &data[idx..]
       ELSE IF idx + 2 > Len(data) \/ Slice(data, idx, idx + 2) # CRLF
       THEN Panic(buf)                                   \* unreachable!()
       ELSE IF is_folded(data, idx) THEN write_loop(buf, data, r.it, prev)
       ELSE IF prev > idx + 2 THEN Panic(buf)            \* &data[prev..idx + 2]
       ELSE LET w == fold(buf, data, prev, idx) IN
            IF w.res # "Ok" THEN w ELSE write_loop(w.buf, data, r.it, idx + 2)

bytes_write_to(buf, data) == write_loop(buf, data, find_unquoted_crlf(data), 0)

str_write_to(buf, data) == bytes_write_to(buf, data)

(***************************************************************************)
(* header.rs: CheckedValue                                                 *)
(***************************************************************************)
memchr_const(needle, haystack, from) ==
  LET hits == {i \in from..(Len(haystack) - 1) : At(haystack, i) = needle}
  IN IF hits = {} THEN None ELSE Some(Min(hits))

\* The loop of check_valid_const; the match reads value[1] and value[2].
RECURSIVE check_valid_from(_, _)
check_valid_from(value, prev) ==
  LET found == memchr_const(CR, value, prev) IN
  IF found = None THEN TRUE
  ELSE LET idx == found[1]
           left == Len(value) - idx
       IN IF left <= 1 THEN TRUE
          ELSE IF left = 2 THEN (IF At(value, 1) = LF THEN FALSE ELSE TRUE)
          ELSE IF At(value, 1) = LF /\ At(value, 2) \in {SP, TAB}
               THEN check_valid_from(value, 3 + idx)
          ELSE IF At(value, 1) = LF THEN FALSE
          ELSE check_valid_from(value, 1 + idx)

check_valid_const(value) == check_valid_from(value, 0)

CheckedValue_try_new(value) ==
  IF ~check_valid_const(value)
  THEN [ok |-> FALSE, err |-> "InvalidHeaderError", value |-> <<>>]
  ELSE [ok |-> TRUE, err |-> "", value |-> value]

\* new(): the value of try_new, a panic where try_new returned Err.
CheckedValue_new(value) ==
  LET r == CheckedValue_try_new(value) IN
  IF r.ok THEN [panic |-> FALSE, value |-> r.value]
  ELSE [panic |-> TRUE, value |-> <<>>]

CheckedValue_new_unchecked(value) == value

CheckedValue_as_bytes(self) == self

\* A write that scans the value again, as the untrusted path does.
CheckedValue_write_to_scanning(buf, value) == bytes_write_to(buf, value)

CheckedValue_write_to(buf, value) == try_put_slice(buf, value)

(***************************************************************************)
(* lib.rs: is_token and validate_uri                                       *)
(***************************************************************************)
\* MASK: u128 = 0x57FFFFFFC7FFFFFE03FF2CFA00000000, as its 32 hex digits.
MASK == <<5, 7, 15, 15, 15, 15, 15, 15, 12, 7, 15, 15, 15, 15, 15, 14,
          0, 3, 15, 15, 2, 12, 15, 10, 0, 0, 0, 0, 0, 0, 0, 0>>
MASKLO == SubSeq(MASK, 17, 32)   \* MASK as u64
MASKHI == SubSeq(MASK, 1, 16)    \* (MASK >> 64) as u64

\* (word >> n) & 1, for a 64-bit word given as 16 hex digits and n in 0..63.
shr_and_1(word, n) == (word[16 - (n \div 4)] \div (2 ^ (n % 4))) % 2

is_allowed(byte) ==
  IF byte \in 0..63 THEN shr_and_1(MASKLO, byte) = 1
  ELSE IF byte \in 64..127 THEN shr_and_1(MASKHI, byte % 64) = 1
  ELSE FALSE

is_token_or_empty(token) ==
  \A i \in 0..(Len(token) - 1) : is_allowed(At(token, i))

is_token(token) ==
  /\ \A i \in 0..(Len(token) - 1) : is_allowed(At(token, i))
  /\ token # <<>>

\* The scan without the emptiness test behind it.
validate_uri_loop_only(uri) ==
  \A i \in 0..(Len(uri) - 1) : At(uri, i) \notin {SP, CR, LF}

validate_uri(uri) ==
  /\ \A i \in 0..(Len(uri) - 1) : At(uri, i) \notin {SP, CR, LF}
  /\ uri # <<>>

(***************************************************************************)
(* header.rs: CheckedField and Header; method.rs: Method                   *)
(***************************************************************************)
CheckedField_try_new(name) ==
  IF ~is_token(name)
  THEN [ok |-> FALSE, err |-> "InvalidHeaderError", value |-> <<>>]
  ELSE [ok |-> TRUE, err |-> "", value |-> name]

\* new(): the value of try_new, a panic where try_new returned Err.
CheckedField_new(name) ==
  LET r == CheckedField_try_new(name) IN
  IF r.ok THEN [panic |-> FALSE, value |-> r.value]
  ELSE [panic |-> TRUE, value |-> <<>>]

Header_new(field, value) ==
  LET f == CheckedField_try_new(field) IN
  IF f.ok THEN [panic |-> FALSE, field |-> f.value, value |-> value]
  ELSE [panic |-> TRUE, field |-> <<>>, value |-> value]

Header_try_new(field, value) ==
  LET f == CheckedField_try_new(field) IN
  IF ~f.ok THEN [ok |-> FALSE, err |-> f.err, field |-> <<>>, value |-> value]
  ELSE [ok |-> TRUE, err |-> "", field |-> f.value, value |-> value]

Method_try_new(method) ==
  IF ~is_token(method)
  THEN [ok |-> FALSE, err |-> "InvalidMethodError", value |-> <<>>]
  ELSE [ok |-> TRUE, err |-> "", value |-> method]

\* A constructor that takes the name without looking at it.
Method_new_unvalidated(method) == [panic |-> FALSE, value |-> method]

Method_new(method) ==
  LET r == Method_try_new(method) IN
  IF r.ok THEN [panic |-> FALSE, value |-> r.value]
  ELSE [panic |-> TRUE, value |-> <<>>]

Method_write_to(buf, method) == try_put_slice(buf, method)

(***************************************************************************)
(* writable.rs: integers                                                   *)
(***************************************************************************)
reverse_kept_order(range) == range

\* Swaps the first half with the mirrored second half; the middle stays.
reverse(range) ==
  IF Len(range) < 2 THEN range
  ELSE LET half == Len(range) \div 2 IN
       [i \in 1..Len(range) |->
          IF i <= half \/ i > Len(range) - half
          THEN range[Len(range) + 1 - i]
          ELSE range[i]]

\* The while loop of writable_unsigned!: the digits, least significant first.
RECURSIVE digits_of(_, _)
digits_of(value, bytes) ==
  IF value = 0 THEN bytes
  ELSE digits_of(value \div 10, Append(bytes, ZERO + (value % 10)))

\* util.rs: the number of decimal digits of x, 1 for 0.
RECURSIVE ilog10_loop(_, _)
ilog10_loop(x, result) ==
  IF x = 0 THEN result ELSE ilog10_loop(x \div 10, result + 1)

ilog10(x) == IF x = 0 THEN 1 ELSE ilog10_loop(x, 0)

\* Self::MAX of the unsigned type of `bits` bits.
MAX(bits) == (2 ^ bits) - 1

\* writable_unsigned! for an unsigned type of `bits` bits; bytes[i] past
\* the end of the array on the stack panics.
unsigned_write_to(buf, value, bits) ==
  LET digits == digits_of(value, <<>>) IN
  IF value = 0 THEN try_put_u8(buf, ZERO)
  ELSE IF Len(digits) > ilog10(MAX(bits)) THEN Panic(buf)
  ELSE try_put_slice(buf, reverse(digits))

\* *self as $uty
as_unsigned(self, bits) == self % (2 ^ bits)

\* !value
bit_not(value, bits) == MAX(bits) - value

\* A magnitude taken as -self in the signed type, then cast.
negate_signed(value, bits) ==
  LET self == IF value >= 2 ^ (bits - 1) THEN value - (2 ^ bits) ELSE value IN
  [overflow |-> (0 - self) > (2 ^ (bits - 1)) - 1,
   value |-> as_unsigned(0 - self, bits)]

\* !value + 1 in $uty: the sum, and whether it leaves the type.
negate(value, bits) ==
  LET sum == bit_not(value, bits) + 1 IN
  [overflow |-> sum > MAX(bits), value |-> sum % (2 ^ bits)]

\* writable_signed! for a signed type of `bits` bits.  An overflowing
\* addition panics where overflow checks are on; it never comes to that.
signed_write_to(buf, self, bits) ==
  LET value == as_unsigned(self, bits) IN
  IF self < 0
  THEN AndThen(try_put_u8(buf, MINUS),
               LAMBDA b : IF negate(value, bits).overflow THEN Panic(b)
                          ELSE unsigned_write_to(b, negate(value, bits).value, bits))
  ELSE unsigned_write_to(buf, value, bits)

(***************************************************************************)
(* version.rs, uri.rs, status.rs                                           *)
(***************************************************************************)
HTTP == <<72, 84, 84, 80>>

Version_http(major, minor) == [proto |-> HTTP, major |-> major, minor |-> minor]

\* A rendering that puts the minor number first.
Version_write_to_minor_first(buf, version) ==
  AndThen(AndThen(AndThen(AndThen(
    try_put_slice(buf, version.proto),
    LAMBDA b : try_put_u8(b, SLASH)),
    LAMBDA b : unsigned_write_to(b, version.minor, 8)),
    LAMBDA b : try_put_u8(b, DOT)),
    LAMBDA b : unsigned_write_to(b, version.major, 8))

Version_write_to(buf, version) ==
  AndThen(AndThen(AndThen(AndThen(
    try_put_slice(buf, version.proto),
    LAMBDA b : try_put_u8(b, SLASH)),
    LAMBDA b : unsigned_write_to(b, version.major, 8)),
    LAMBDA b : try_put_u8(b, DOT)),
    LAMBDA b : unsigned_write_to(b, version.minor, 8))

\* A search for two of the three bytes only.
memchr3_uri_without_lf(uri) ==
  LET hits == {i \in 0..(Len(uri) - 1) : At(uri, i) \in {SP, CR}}
  IN IF hits = {} THEN None ELSE Some(Min(hits))

\* memchr::memchr3(b' ', b'\r', b'\n', uri)
memchr3_uri(uri) ==
  LET hits == {i \in 0..(Len(uri) - 1) : At(uri, i) \in {SP, CR, LF}}
  IN IF hits = {} THEN None ELSE Some(Min(hits))

Uri_try_new(uri) ==
  IF ~(uri # <<>> /\ memchr3_uri(uri) = None)
  THEN [ok |-> FALSE, err |-> "InvalidUriError", value |-> <<>>]
  ELSE [ok |-> TRUE, err |-> "", value |-> uri]

Uri_try_new_const(uri) ==
  IF ~validate_uri(uri)
  THEN [ok |-> FALSE, err |-> "InvalidUriError", value |-> <<>>]
  ELSE [ok |-> TRUE, err |-> "", value |-> uri]

Uri_new(uri) ==
  LET r == Uri_try_new(uri) IN
  IF r.ok THEN [panic |-> FALSE, value |-> r.value]
  ELSE [panic |-> TRUE, value |-> <<>>]

Uri_new_const(uri) ==
  LET r == Uri_try_new_const(uri) IN
  IF r.ok THEN [panic |-> FALSE, value |-> r.value]
  ELSE [panic |-> TRUE, value |-> <<>>]

Uri_write_to(buf, uri) == try_put_slice(buf, uri)

PHRASES_MIN == 100
PHRASES_MAX == 511
PHRASES_LEN == PHRASES_MAX - PHRASES_MIN + 1

\* arraytable!: the phrase registered at an index, None where none is.
phrase_at(code) ==
  CASE code = 100 -> Some(<<67, 111, 110, 116, 105, 110, 117, 101>>)  \* Continue
    [] code = 101 -> Some(<<83, 119, 105, 116, 99, 104, 105, 110, 103, 32, 80, 114, 111, 116, 111, 99, 111, 108, 115>>)  \* Switching Protocols
    [] code = 102 -> Some(<<80, 114, 111, 99, 101, 115, 115, 105, 110, 103>>)  \* Processing
    [] code = 103 -> Some(<<69, 97, 114, 108, 121, 32, 72, 105, 110, 116, 115>>)  \* Early Hints
    [] code = 200 -> Some(<<79, 75>>)  \* OK
    [] code = 201 -> Some(<<67, 114, 101, 97, 116, 101, 100>>)  \* Created
    [] code = 202 -> Some(<<65, 99, 99, 101, 112, 116, 101, 100>>)  \* Accepted
    [] code = 203 -> Some(<<78, 111, 110, 45, 65, 117, 116, 104, 111, 114, 105, 116, 97, 116, 105, 118, 101, 32, 73, 110, 102, 111, 114, 109, 97, 116, 105, 111, 110>>)  \* Non-Authoritative Information
    [] code = 204 -> Some(<<78, 111, 32, 67, 111, 110, 116, 101, 110, 116>>)  \* No Content
    [] code = 205 -> Some(<<82, 101, 115, 101, 116, 32, 67, 111, 110, 116, 101, 110, 116>>)  \* Reset Content
    [] code = 206 -> Some(<<80, 97, 114, 116, 105, 97, 108, 32, 67, 111, 110, 116, 101, 110, 116>>)  \* Partial Content
    [] code = 207 -> Some(<<77, 117, 108, 116, 105, 45, 83, 116, 97, 116, 117, 115>>)  \* Multi-Status
    [] code = 208 -> Some(<<65, 108, 114, 101, 97, 100, 121, 32, 82, 101, 112, 111, 114, 116, 101, 100>>)  \* Already Reported
    [] code = 226 -> Some(<<73, 77, 32, 85, 115, 101, 100>>)  \* IM Used
    [] code = 300 -> Some(<<77, 117, 108, 116, 105, 112, 108, 101, 32, 67, 104, 111, 105, 99, 101, 115>>)  \* Multiple Choices
    [] code = 301 -> Some(<<77, 111, 118, 101, 100, 32, 80, 101, 114, 109, 97, 110, 101, 110, 116, 108, 121>>)  \* Moved Permanently
    [] code = 302 -> Some(<<70, 111, 117, 110, 100>>)  \* Found
    [] code = 303 -> Some(<<83, 101, 101, 32, 79, 116, 104, 101, 114>>)  \* See Other
    [] code = 304 -> Some(<<78, 111, 116, 32, 77, 111, 100, 105, 102, 105, 101, 100>>)  \* Not Modified
    [] code = 305 -> Some(<<85, 115, 101, 32, 80, 114, 111, 120, 121>>)  \* Use Proxy
    [] code = 307 -> Some(<<84, 101, 109, 112, 111, 114, 97, 114, 121, 32, 82, 101, 100, 105, 114, 101, 99, 116>>)  \* Temporary Redirect
    [] code = 308 -> Some(<<80, 101, 114, 109, 97, 110, 101, 110, 116, 32, 82, 101, 100, 105, 114, 101, 99, 116>>)  \* Permanent Redirect
    [] code = 400 -> Some(<<66, 97, 100, 32, 82, 101, 113, 117, 101, 115, 116>>)  \* Bad Request
    [] code = 401 -> Some(<<85, 110, 97, 117, 116, 104, 111, 114, 105, 122, 101, 100>>)  \* Unauthorized
    [] code = 402 -> Some(<<80, 97, 121, 109, 101, 110, 116, 32, 82, 101, 113, 117, 105, 114, 101, 100>>)  \* Payment Required
    [] code = 403 -> Some(<<70, 111, 114, 98, 105, 100, 100, 101, 110>>)  \* Forbidden
    [] code = 404 -> Some(<<78, 111, 116, 32, 70, 111, 117, 110, 100>>)  \* Not Found
    [] code = 405 -> Some(<<77, 101, 116, 104, 111, 100, 32, 78, 111, 116, 32, 65, 108, 108, 111, 119, 101, 100>>)  \* Method Not Allowed
    [] code = 406 -> Some(<<78, 111, 116, 32, 65, 99, 99, 101, 112, 116, 97, 98, 108, 101>>)  \* Not Acceptable
    [] code = 407 -> Some(<<80, 114, 111, 120, 121, 32, 65, 117, 116, 104, 101, 110, 116, 105, 99, 97, 116, 105, 111, 110, 32, 82, 101, 113, 117, 105, 114, 101, 100>>)  \* Proxy Authentication Required
    [] code = 408 -> Some(<<82, 101, 113, 117, 101, 115, 116, 32, 84, 105, 109, 101, 111, 117, 116>>)  \* Request Timeout
    [] code = 409 -> Some(<<67, 111, 110, 102, 108, 105, 99, 116>>)  \* Conflict
    [] code = 410 -> Some(<<71, 111, 110, 101>>)  \* Gone
    [] code = 411 -> Some(<<76, 101, 110, 103, 116, 104, 32, 82, 101, 113, 117, 105, 114, 101, 100>>)  \* Length Required
    [] code = 412 -> Some(<<80, 114, 101, 99, 111, 110, 100, 105, 116, 105, 111, 110, 32, 70, 97, 105, 108, 101, 100>>)  \* Precondition Failed
    [] code = 413 -> Some(<<80, 97, 121, 108, 111, 97, 100, 32, 84, 111, 111, 32, 76, 97, 114, 103, 101>>)  \* Payload Too Large
    [] code = 414 -> Some(<<85, 82, 73, 32, 84, 111, 111, 32, 76, 111, 110, 103>>)  \* URI Too Long
    [] code = 415 -> Some(<<85, 110, 115, 117, 112, 112, 111, 114, 116, 101, 100, 32, 77, 101, 100, 105, 97, 32, 84, 121, 112, 101>>)  \* Unsupported Media Type
    [] code = 416 -> Some(<<82, 97, 110, 103, 101, 32, 78, 111, 116, 32, 83, 97, 116, 105, 115, 102, 105, 97, 98, 108, 101>>)  \* Range Not Satisfiable
    [] code = 417 -> Some(<<69, 120, 112, 101, 99, 116, 97, 116, 105, 111, 110, 32, 70, 97, 105, 108, 101, 100>>)  \* Expectation Failed
    [] code = 418 -> Some(<<73, 39, 109, 32, 97, 32, 84, 101, 97, 112, 111, 116>>)  \* I'm a Teapot
    [] code = 421 -> Some(<<77, 105, 115, 100, 105, 114, 101, 99, 116, 101, 100, 32, 82, 101, 113, 117, 101, 115, 116>>)  \* Misdirected Request
    [] code = 422 -> Some(<<85, 110, 112, 114, 111, 99, 101, 115, 115, 97, 98, 108, 101, 32, 69, 110, 116, 105, 116, 121>>)  \* Unprocessable Entity
    [] code = 423 -> Some(<<76, 111, 99, 107, 101, 100>>)  \* Locked
    [] code = 424 -> Some(<<70, 97, 105, 108, 101, 100, 32, 68, 101, 112, 101, 110, 100, 101, 110, 99, 121>>)  \* Failed Dependency
    [] code = 425 -> Some(<<84, 111, 111, 32, 69, 97, 114, 108, 121>>)  \* Too Early
    [] code = 426 -> Some(<<85, 112, 103, 114, 97, 100, 101, 32, 82, 101, 113, 117, 105, 114, 101, 100>>)  \* Upgrade Required
    [] code = 428 -> Some(<<80, 114, 101, 99, 111, 110, 100, 105, 116, 105, 111, 110, 32, 82, 101, 113, 117, 105, 114, 101, 100>>)  \* Precondition Required
    [] code = 429 -> Some(<<84, 111, 111, 32, 77, 97, 110, 121, 32, 82, 101, 113, 117, 101, 115, 116, 115>>)  \* Too Many Requests
    [] code = 431 -> Some(<<82, 101, 113, 117, 101, 115, 116, 32, 72, 101, 97, 100, 101, 114, 32, 70, 105, 101, 108, 100, 115, 32, 84, 111, 111, 32, 76, 97, 114, 103, 101>>)  \* Request Header Fields Too Large
    [] code = 451 -> Some(<<85, 110, 97, 118, 97, 105, 108, 97, 98, 108, 101, 32, 102, 111, 114, 32, 76, 101, 103, 97, 108, 32, 82, 101, 97, 115, 111, 110, 115>>)  \* Unavailable for Legal Reasons
    [] code = 500 -> Some(<<73, 110, 116, 101, 114, 110, 97, 108, 32, 83, 101, 114, 118, 101, 114, 32, 69, 114, 114, 111, 114>>)  \* Internal Server Error
    [] code = 501 -> Some(<<78, 111, 116, 32, 73, 109, 112, 108, 101, 109, 101, 110, 116, 101, 100>>)  \* Not Implemented
    [] code = 502 -> Some(<<66, 97, 100, 32, 71, 97, 116, 101, 119, 97, 121>>)  \* Bad Gateway
    [] code = 503 -> Some(<<83, 101, 114, 118, 105, 99, 101, 32, 85, 110, 97, 118, 97, 105, 108, 97, 98, 108, 101>>)  \* Service Unavailable
    [] code = 504 -> Some(<<71, 97, 116, 101, 119, 97, 121, 32, 84, 105, 109, 101, 111, 117, 116>>)  \* Gateway Timeout
    [] code = 505 -> Some(<<72, 84, 84, 80, 32, 86, 101, 114, 115, 105, 111, 110, 32, 78, 111, 116, 32, 83, 117, 112, 112, 111, 114, 116, 101, 100>>)  \* HTTP Version Not Supported
    [] code = 506 -> Some(<<86, 97, 114, 105, 97, 110, 116, 32, 65, 108, 115, 111, 32, 78, 101, 103, 111, 116, 105, 97, 116, 101, 115>>)  \* Variant Also Negotiates
    [] code = 507 -> Some(<<73, 110, 115, 117, 102, 102, 105, 99, 105, 101, 110, 116, 32, 83, 116, 111, 114, 97, 103, 101>>)  \* Insufficient Storage
    [] code = 508 -> Some(<<76, 111, 111, 112, 32, 68, 101, 116, 101, 99, 116, 101, 100>>)  \* Loop Detected
    [] code = 510 -> Some(<<78, 111, 116, 32, 69, 120, 116, 101, 110, 100, 101, 100>>)  \* Not Extended
    [] code = 511 -> Some(<<78, 101, 116, 119, 111, 114, 107, 32, 65, 117, 116, 104, 101, 110, 116, 105, 99, 97, 116, 105, 111, 110, 32, 82, 101, 113, 117, 105, 114, 101, 100>>)  \* Network Authentication Required
    [] OTHER -> None

\* REASON_PHRASES[index]; an index past the end of the array panics.
REASON_PHRASES(index) ==
  IF index \in 0..(PHRASES_LEN - 1)
  THEN [panic |-> FALSE, phrase |-> phrase_at(index + PHRASES_MIN)]
  ELSE [panic |-> TRUE, phrase |-> None]

reason_phrase(code) ==
  IF code \in 0..99 THEN [panic |-> FALSE, phrase |-> None]
  ELSE IF code > PHRASES_LEN + 100 THEN [panic |-> FALSE, phrase |-> None]
  ELSE REASON_PHRASES(code - 100)

Status_new(code) ==
  LET r == reason_phrase(code) IN
  [panic |-> r.panic, code |-> code, reason |-> r.phrase]

\* A with_reason that keeps the registered phrase of a code that has one.
Status_with_reason_unless_registered(code, reason) ==
  [panic |-> FALSE, code |-> code,
   reason |-> IF phrase_at(code) # None THEN phrase_at(code) ELSE Some(reason)]

Status_with_reason(code, reason) ==
  [panic |-> FALSE, code |-> code, reason |-> Some(reason)]

Status_reason(status) ==
  IF status.reason # None THEN status.reason[1] ELSE <<>>


(***************************************************************************)
(* header.rs: Header::write_to, over the value types of HttpWriteable.     *)
(* A value is [kind, bytes, int, bits]: kind names the Rust type.          *)
(***************************************************************************)
BytesValue(b) == [kind |-> "bytes", bytes |-> b, int |-> 0, bits |-> 0]
StrValue(b) == [kind |-> "str", bytes |-> b, int |-> 0, bits |-> 0]
CheckedValue(b) == [kind |-> "checked", bytes |-> b, int |-> 0, bits |-> 0]
UnsignedValue(n, bits) == [kind |-> "unsigned", bytes |-> <<>>, int |-> n, bits |-> bits]
SignedValue(n, bits) == [kind |-> "signed", bytes |-> <<>>, int |-> n, bits |-> bits]

value_write_to(buf, value) ==
  CASE value.kind = "bytes" -> bytes_write_to(buf, value.bytes)
    [] value.kind = "str" -> str_write_to(buf, value.bytes)
    [] value.kind = "checked" -> CheckedValue_write_to(buf, value.bytes)
    [] value.kind = "unsigned" -> unsigned_write_to(buf, value.int, value.bits)
    [] value.kind = "signed" -> signed_write_to(buf, value.int, value.bits)

Header_write_to_value_first(buf, header) ==
  AndThen(AndThen(AndThen(
    value_write_to(buf, header.value),
    LAMBDA b : try_put_slice(b, <<COLON, SP>>)),
    LAMBDA b : try_put_slice(b, header.field)),
    LAMBDA b : try_put_slice(b, CRLF))

Header_write_to(buf, header) ==
  AndThen(AndThen(AndThen(
    try_put_slice(buf, header.field),
    LAMBDA b : try_put_slice(b, <<COLON, SP>>)),
    LAMBDA b : value_write_to(b, header.value)),
    LAMBDA b : try_put_slice(b, CRLF))

(***************************************************************************)
(* lib.rs: HttpBuilder                                                     *)
(***************************************************************************)
HttpBuilder_request_one_space(buffer, method, request_target, version) ==
  AndThen(AndThen(AndThen(AndThen(
    Method_write_to(buffer, method),
    LAMBDA b : try_put_u8(b, SP)),
    LAMBDA b : Uri_write_to(b, request_target)),
    LAMBDA b : Version_write_to(b, version)),
    LAMBDA b : try_put_slice(b, CRLF))

HttpBuilder_request(buffer, method, request_target, version) ==
  AndThen(AndThen(AndThen(AndThen(AndThen(
    Method_write_to(buffer, method),
    LAMBDA b : try_put_u8(b, SP)),
    LAMBDA b : Uri_write_to(b, request_target)),
    LAMBDA b : try_put_u8(b, SP)),
    LAMBDA b : Version_write_to(b, version)),
    LAMBDA b : try_put_slice(b, CRLF))

HttpBuilder_response_no_reason_space(buffer, version, status) ==
  AndThen(AndThen(AndThen(AndThen(
    Version_write_to(buffer, version),
    LAMBDA b : try_put_u8(b, SP)),
    LAMBDA b : unsigned_write_to(b, status.code, 16)),
    LAMBDA b : try_put_slice(b, Status_reason(status))),
    LAMBDA b : try_put_slice(b, CRLF))

HttpBuilder_response(buffer, version, status) ==
  AndThen(AndThen(AndThen(AndThen(AndThen(
    Version_write_to(buffer, version),
    LAMBDA b : try_put_u8(b, SP)),
    LAMBDA b : unsigned_write_to(b, status.code, 16)),
    LAMBDA b : try_put_u8(b, SP)),
    LAMBDA b : try_put_slice(b, Status_reason(status))),
    LAMBDA b : try_put_slice(b, CRLF))

\* A header() that hands the buffer back as it was when the write fails.
HttpBuilder_header_rollback(buffer, header) ==
  LET r == Header_write_to(buffer, header)
  IN IF r.res = "Ok" THEN r ELSE Err(buffer)

HttpBuilder_header(buffer, header) == Header_write_to(buffer, header)

\* A finish() that wants a byte more than it appends.
HttpBuilder_finish_needs_three(buffer) ==
  IF lacks_room(buffer, 3) THEN Err(buffer) ELSE try_put_slice(buffer, CRLF)

HttpBuilder_finish_bare_lf(buffer) == try_put_slice(buffer, <<LF>>)

HttpBuilder_finish(buffer) == try_put_slice(buffer, CRLF)

HttpBuilder_from_buffer(buffer) == Ok(buffer)

HttpBuilder_into_inner(buffer) == buffer

(***************************************************************************)
(* Inputs                                                                  *)
(***************************************************************************)
ValueAlphabet == {CR, LF, SP, TAB, DQUOTE, BACKSLASH, LOWER_A}

\* The values of tests/encode-test.rs and of the crate's documentation.
LINE1_LINE2 == <<108, 105, 110, 101, 49, 13, 10, 108, 105, 110, 101, 50>>
SPACE_AFTER_CRLF ==
  <<77, 117, 108, 116, 105, 108, 105, 110, 101, 32, 115, 116, 114, 105, 110,
    103, 13, 10, 32, 119, 105, 116, 104, 32, 115, 112, 97, 99, 101, 32, 97,
    102, 116, 101, 114, 32, 67, 82, 76, 70>>
QUOTED_WITH_NEWLINE ==
  <<34, 81, 13, 10, 97, 34, 32, 13, 10, 111>>   \* "Q\r\na" \r\no

\* "Quoted with newline\r\nand another line" but also \r\none outside
QUOTED_CRLF_FIELD ==
  <<34, 81, 117, 111, 116, 101, 100, 32, 119, 105, 116, 104, 32, 110, 101,
    119, 108, 105, 110, 101, 13, 10, 97, 110, 100, 32, 97, 110, 111, 116,
    104, 101, 114, 32, 108, 105, 110, 101, 34, 32, 98, 117, 116, 32, 97,
    108, 115, 111, 32, 13, 10, 111, 110, 101, 32, 111, 117, 116, 115, 105,
    100, 101>>

ValueInputs ==
  StringsUpTo(ValueAlphabet, MaxLen)
    \cup {LINE1_LINE2, SPACE_AFTER_CRLF, QUOTED_WITH_NEWLINE, QUOTED_CRLF_FIELD}

TokenPadAlphabet == {LOWER_A, COLON}

\* Every byte value, alone and between short prefixes and suffixes.
TokenInputs ==
  {p \o m \o s : p \in StringsUpTo(TokenPadAlphabet, MaxPad),
                 m \in {<<>>} \cup {<<b>> : b \in Byte},
                 s \in StringsUpTo(TokenPadAlphabet, MaxPad)}

NoBuilder == [phase |-> "none", buffer |-> Vec(<<>>)]
NoStart == [kind |-> "none"]
NoOutput == [res |-> "none"]

BuilderIdle ==
  /\ capacity = Vec(<<>>)
  /\ start = NoStart
  /\ builder = NoBuilder
  /\ calls = <<>>
  /\ last = "none"

(***************************************************************************)
(* The value paths, each applied once to a drawn byte string               *)
(***************************************************************************)
InitValue ==
  /\ input \in ValueInputs
  /\ op = "none"
  /\ output = NoOutput
  /\ BuilderIdle

WriteBytes ==
  /\ op = "none"
  /\ op' = "bytes_write_to"
  /\ output' = bytes_write_to(Vec(<<>>), input)
  /\ UNCHANGED <<input, capacity, start, builder, calls, last>>

WriteStr ==
  /\ op = "none"
  /\ op' = "str_write_to"
  /\ output' = str_write_to(Vec(<<>>), input)
  /\ UNCHANGED <<input, capacity, start, builder, calls, last>>

CheckedValueTryNew ==
  /\ op = "none"
  /\ op' = "CheckedValue_try_new"
  /\ output' = CheckedValue_try_new(input)
  /\ UNCHANGED <<input, capacity, start, builder, calls, last>>

\* tests::checked_value_valid!: new and new_unchecked of the same bytes.
CheckedValueNew ==
  /\ op = "none"
  /\ op' = "CheckedValue_new"
  /\ output' = [panic |-> CheckedValue_new(input).panic,
                 value |-> CheckedValue_new(input).value,
                 unchecked |-> CheckedValue_new_unchecked(input),
                 as_bytes |-> CheckedValue_as_bytes(CheckedValue_new(input).value)]
  /\ UNCHANGED <<input, capacity, start, builder, calls, last>>

\* write_to of the value that new() returned.
CheckedValueWrite ==
  /\ op = "CheckedValue_new"
  /\ ~output.panic
  /\ op' = "CheckedValue_write_to"
  /\ output' = CheckedValue_write_to(Vec(<<>>), output.value)
  /\ UNCHANGED <<input, capacity, start, builder, calls, last>>

\* The untrusted write_to applied to what the first write_to emitted; calls
\* keeps the first result.
WriteAgain ==
  /\ op \in {"bytes_write_to", "str_write_to"}
  /\ output.res = "Ok"
  /\ op' = "write_to_again"
  /\ output' = bytes_write_to(Vec(<<>>), output.buf.bytes)
  /\ calls' = <<[op |-> op, out |-> output]>>
  /\ UNCHANGED <<input, capacity, start, builder, last>>

NextValue ==
  \/ WriteBytes
  \/ WriteStr
  \/ CheckedValueTryNew
  \/ CheckedValueNew
  \/ CheckedValueWrite
  \/ WriteAgain

SpecValue == InitValue /\ [][NextValue]_vars

(***************************************************************************)
(* The token validators, each applied once to a drawn name                 *)
(***************************************************************************)
InitToken ==
  /\ input \in TokenInputs
  /\ op = "none"
  /\ output = NoOutput
  /\ BuilderIdle

IsToken ==
  /\ op = "none"
  /\ op' = "is_token"
  /\ output' = [ok |-> is_token(input)]
  /\ UNCHANGED <<input, capacity, start, builder, calls, last>>

CheckedFieldTryNew ==
  /\ op = "none"
  /\ op' = "CheckedField_try_new"
  /\ output' = CheckedField_try_new(input)
  /\ UNCHANGED <<input, capacity, start, builder, calls, last>>

HeaderTryNew ==
  /\ op = "none"
  /\ op' = "Header_try_new"
  /\ output' = Header_try_new(input, <<LOWER_A>>)
  /\ UNCHANGED <<input, capacity, start, builder, calls, last>>

MethodTryNew ==
  /\ op = "none"
  /\ op' = "Method_try_new"
  /\ output' = Method_try_new(input)
  /\ UNCHANGED <<input, capacity, start, builder, calls, last>>

NextToken == IsToken \/ CheckedFieldTryNew \/ HeaderTryNew \/ MethodTryNew

SpecToken == InitToken /\ [][NextToken]_vars

(***************************************************************************)
(* The builder: a start, header() calls, then finish() or into_inner()     *)
(***************************************************************************)
GET == <<71, 69, 84>>
POST == <<80, 79, 83, 84>>
ROOT == <<47>>
TEAPOT == <<73, 39, 109, 32, 97, 32, 84, 101, 97, 112, 111, 116>>
CUSTOM_LINE == <<71, 13, 10>>

\* Candidates; the constructors decide which of them reach the builder.
MethodNames == {GET, POST, <<71, 32, 84>>}
UriTargets == {ROOT, <<47, 32, 97>>}
Versions == {Version_http(1, 0), Version_http(1, 1), Version_http(2, 10)}
Statuses ==
  {Status_new(200), Status_new(600), Status_with_reason(418, TEAPOT)}
FieldNames == {<<65>>, <<66, 99>>, <<65, 58>>, <<>>}
HeaderValues ==
  { BytesValue(<<LOWER_A>>),
    StrValue(<<LOWER_A, CR, LF, LOWER_A>>),
    BytesValue(<<DQUOTE, CR, LF>>),
    SignedValue(0 - 10, 8),
    UnsignedValue(0, 16),
    CheckedValue(<<LOWER_A>>),
    CheckedValue(<<TAB, CR, LF>>),
    CheckedValue(<<CR, LF, LOWER_A>>) }

Limits == {0, 20, 28}
Destinations ==
  {Vec(<<>>), Vec(CUSTOM_LINE)} \cup {FixedBuf(<<>>, n) : n \in Limits}

Init ==
  /\ input = <<>>
  /\ op = "none"
  /\ output = NoOutput
  /\ capacity \in Destinations
  /\ start = NoStart
  /\ builder = [phase |-> "none", buffer |-> capacity]
  /\ calls = <<>>
  /\ last = "none"

\* A start that returned Err gives the caller no builder.
Started(r) == [phase |-> IF r.res = "Ok" THEN "headers" ELSE "failed",
               buffer |-> r.buf]

Request ==
  \E m \in MethodNames, u \in UriTargets, v \in Versions :
    /\ builder.phase = "none"
    /\ Method_try_new(m).ok
    /\ Uri_try_new(u).ok
    /\ LET r == HttpBuilder_request(capacity, m, u, v) IN
       /\ builder' = Started(r)
       /\ last' = r.res
       /\ start' = [kind |-> "request", method |-> m, uri |-> u, version |-> v,
                    status |-> Status_with_reason(0, <<>>), tabled |-> FALSE,
                    content |-> r.buf.bytes]
    /\ UNCHANGED <<input, op, output, capacity, calls>>

Response ==
  \E v \in Versions, s \in Statuses :
    /\ builder.phase = "none"
    /\ ~s.panic
    /\ LET r == HttpBuilder_response(capacity, v, s) IN
       /\ builder' = Started(r)
       /\ last' = r.res
       /\ start' = [kind |-> "response", method |-> <<>>, uri |-> <<>>,
                    version |-> v, status |-> s,
                    tabled |-> (s = Status_new(s.code)),
                    content |-> r.buf.bytes]
    /\ UNCHANGED <<input, op, output, capacity, calls>>

FromBuffer ==
  /\ builder.phase = "none"
  /\ LET r == HttpBuilder_from_buffer(capacity) IN
     /\ builder' = Started(r)
     /\ last' = r.res
     /\ start' = [kind |-> "from_buffer", method |-> <<>>, uri |-> <<>>,
                  version |-> Version_http(0, 0),
                  status |-> Status_with_reason(0, <<>>), tabled |-> FALSE,
                  content |-> r.buf.bytes]
  /\ UNCHANGED <<input, op, output, capacity, calls>>

\* header() borrows the builder: after an Err the builder is still there.
Header ==
  \E f \in FieldNames, v \in HeaderValues :
    /\ builder.phase = "headers"
    /\ Len(calls) < MaxHeaders
    /\ v.kind = "checked" => CheckedValue_try_new(v.bytes).ok
    /\ LET h == Header_try_new(f, v) IN
       /\ h.ok
       /\ LET r == HttpBuilder_header(builder.buffer, h) IN
          /\ builder' = [builder EXCEPT !.buffer = r.buf]
          /\ last' = r.res
          /\ calls' = Append(calls, [field |-> h.field, value |-> h.value,
                                     res |-> r.res])
    /\ UNCHANGED <<input, op, output, capacity, start>>

\* finish() consumes the builder and returns the buffer only with Ok.
Finish ==
  /\ builder.phase = "headers"
  /\ LET r == HttpBuilder_finish(builder.buffer) IN
     /\ builder' = [phase |-> IF r.res = "Ok" THEN "finished" ELSE "failed",
                    buffer |-> r.buf]
     /\ last' = r.res
  /\ UNCHANGED <<input, op, output, capacity, start, calls>>

IntoInner ==
  /\ builder.phase = "headers"
  /\ builder' = [phase |-> "returned",
                 buffer |-> HttpBuilder_into_inner(builder.buffer)]
  /\ last' = "Ok"
  /\ UNCHANGED <<input, op, output, capacity, start, calls>>

Next == Request \/ Response \/ FromBuffer \/ Header \/ Finish \/ IntoInner

Spec == Init /\ [][Next]_vars

(***************************************************************************)
(* The write paths, each applied once to a destination of fixed capacity   *)
(***************************************************************************)
\* What one call writes: path names the call, the other fields its arguments.
Job(path, field, value, method, uri, version, status) ==
  [path |-> path, field |-> field, value |-> value, method |-> method,
   uri |-> uri, version |-> version, status |-> status]

ValueJob(v) ==
  Job("value", <<>>, v, <<>>, <<>>, Version_http(0, 0), Status_with_reason(0, <<>>))
HeaderJob(f, v) ==
  Job("header", f, v, <<>>, <<>>, Version_http(0, 0), Status_with_reason(0, <<>>))
RequestJob(m, u, v) ==
  Job("request", <<>>, BytesValue(<<>>), m, u, v, Status_with_reason(0, <<>>))
ResponseJob(v, s) ==
  Job("response", <<>>, BytesValue(<<>>), <<>>, <<>>, v, s)
FinishJob ==
  Job("finish", <<>>, BytesValue(<<>>), <<>>, <<>>, Version_http(0, 0),
      Status_with_reason(0, <<>>))
\* The sink's own appends: value carries src: &[u8], or n: u8.
PutSliceJob(src) ==
  Job("try_put_slice", <<>>, BytesValue(src), <<>>, <<>>, Version_http(0, 0),
      Status_with_reason(0, <<>>))
PutU8Job(n) ==
  Job("try_put_u8", <<>>, UnsignedValue(n, 8), <<>>, <<>>, Version_http(0, 0),
      Status_with_reason(0, <<>>))

SpaceStrings == StringsUpTo({CR, LF, LOWER_A}, MaxLen - 2) \cup {LINE1_LINE2}

SpaceValues ==
  {BytesValue(b) : b \in SpaceStrings} \cup {StrValue(b) : b \in SpaceStrings}
    \cup {CheckedValue(b) : b \in {c \in SpaceStrings : CheckedValue_try_new(c).ok}}
    \cup {UnsignedValue(n, 8) : n \in {0, 9, 10, 255}}
    \cup {UnsignedValue(n, 16) : n \in {0, 999, 65535}}
    \cup {SignedValue(n, 8) : n \in {0 - 128, 0 - 10, 0, 127}}
    \cup {SignedValue(n, 16) : n \in {0 - 32768, 0 - 1, 32767}}

SpaceJobs ==
  {ValueJob(v) : v \in SpaceValues}
    \cup {HeaderJob(f, v) : f \in {<<65>>, <<66, 99>>}, v \in SpaceValues}
    \cup {RequestJob(m, u, v) : m \in {GET, POST}, u \in {ROOT}, v \in Versions}
    \cup {ResponseJob(v, s) : v \in Versions, s \in {t \in Statuses : ~t.panic}}
    \cup {FinishJob}
    \cup {PutSliceJob(src) : src \in SpaceStrings}
    \cup {PutU8Job(n) : n \in {0, TAB, 255}}

\* Slices of every length from zero, empty or holding a line already.
SpaceDestinations ==
  {FixedBuf(<<>>, n) : n \in 0..MaxCap}
    \cup {FixedBuf(CUSTOM_LINE, Len(CUSTOM_LINE) + n) : n \in 0..MaxCap}

InitSpace ==
  /\ input \in SpaceJobs
  /\ capacity \in SpaceDestinations
  /\ op = "none"
  /\ output = NoOutput
  /\ start = NoStart
  /\ builder = NoBuilder
  /\ calls = <<>>
  /\ last = "none"

SpaceValue ==
  /\ op = "none"
  /\ input.path = "value"
  /\ op' = "write_to"
  /\ output' = value_write_to(capacity, input.value)
  /\ UNCHANGED <<input, capacity, start, builder, calls, last>>

SpaceHeader ==
  /\ op = "none"
  /\ input.path = "header"
  /\ op' = "Header_write_to"
  /\ output' = Header_write_to(capacity, [field |-> input.field, value |-> input.value])
  /\ UNCHANGED <<input, capacity, start, builder, calls, last>>

SpaceRequest ==
  /\ op = "none"
  /\ input.path = "request"
  /\ op' = "HttpBuilder_request"
  /\ output' = HttpBuilder_request(capacity, input.method, input.uri, input.version)
  /\ UNCHANGED <<input, capacity, start, builder, calls, last>>

SpaceResponse ==
  /\ op = "none"
  /\ input.path = "response"
  /\ op' = "HttpBuilder_response"
  /\ output' = HttpBuilder_response(capacity, input.version, input.status)
  /\ UNCHANGED <<input, capacity, start, builder, calls, last>>

SpaceFinish ==
  /\ op = "none"
  /\ input.path = "finish"
  /\ op' = "HttpBuilder_finish"
  /\ output' = HttpBuilder_finish(capacity)
  /\ UNCHANGED <<input, capacity, start, builder, calls, last>>

SpaceTryPutSlice ==
  /\ op = "none"
  /\ input.path = "try_put_slice"
  /\ op' = "try_put_slice"
  /\ output' = try_put_slice(capacity, input.value.bytes)
  /\ UNCHANGED <<input, capacity, start, builder, calls, last>>

SpaceTryPutU8 ==
  /\ op = "none"
  /\ input.path = "try_put_u8"
  /\ op' = "try_put_u8"
  /\ output' = try_put_u8(capacity, input.value.int)
  /\ UNCHANGED <<input, capacity, start, builder, calls, last>>

NextSpace ==
  \/ SpaceValue \/ SpaceHeader \/ SpaceRequest \/ SpaceResponse \/ SpaceFinish
  \/ SpaceTryPutSlice \/ SpaceTryPutU8

SpecSpace == InitSpace /\ [][NextSpace]_vars

(***************************************************************************)
(* The integer paths, each applied once to a drawn integer                 *)
(***************************************************************************)
\* The widths whose every value the model's integers can hold.
Widths == {8, 16}

IntKinds == {"unsigned", "signed"}

\* A value of the type: the drawn number lies in the range of its width.
InType(value) ==
  IF value.kind = "unsigned" THEN value.int \in 0..MAX(value.bits)
  ELSE value.int \in (0 - (2 ^ (value.bits - 1)))..((2 ^ (value.bits - 1)) - 1)

InitInt ==
  /\ \E k \in IntKinds, w \in Widths, n \in (0 - 32768)..65535 :
       /\ input = [kind |-> k, bytes |-> <<>>, int |-> n, bits |-> w]
       /\ InType(input)
  /\ op = "none"
  /\ output = NoOutput
  /\ BuilderIdle

WriteUnsigned ==
  /\ op = "none"
  /\ input.kind = "unsigned"
  /\ op' = "unsigned_write_to"
  /\ output' = unsigned_write_to(Vec(<<>>), input.int, input.bits)
  /\ UNCHANGED <<input, capacity, start, builder, calls, last>>

WriteSigned ==
  /\ op = "none"
  /\ input.kind = "signed"
  /\ op' = "signed_write_to"
  /\ output' = signed_write_to(Vec(<<>>), input.int, input.bits)
  /\ UNCHANGED <<input, capacity, start, builder, calls, last>>

NextInt == WriteUnsigned \/ WriteSigned

SpecInt == InitInt /\ [][NextInt]_vars

(***************************************************************************)
(* Status::new on a drawn code, then reason()                              *)
(***************************************************************************)
InitStatus ==
  /\ input \in 0..65535
  /\ op = "none"
  /\ output = NoOutput
  /\ BuilderIdle

StatusNew ==
  /\ op = "none"
  /\ op' = "Status_new"
  /\ output' = Status_new(input)
  /\ UNCHANGED <<input, capacity, start, builder, calls, last>>

\* reason() of the status that new() returned; a panic returned none.
StatusReason ==
  /\ op = "Status_new"
  /\ ~output.panic
  /\ op' = "Status_reason"
  /\ output' = [panic |-> FALSE, code |-> output.code, reason |-> output.reason,
                 phrase |-> Status_reason(output)]
  /\ UNCHANGED <<input, capacity, start, builder, calls, last>>

\* Reason phrases a caller may give: none of them is looked at.
Reasons == {<<>>, TEAPOT, <<CR, LF, 88>>}

\* calls keeps the phrase that was given.
StatusWithReason ==
  \E reason \in Reasons :
    /\ op = "none"
    /\ op' = "Status_with_reason"
    /\ output' = Status_with_reason(input, reason)
    /\ calls' = <<[op |-> "Status_with_reason", reason |-> reason]>>
    /\ UNCHANGED <<input, capacity, start, builder, last>>

\* response() with the status that with_reason returned.
ResponseWithReason ==
  /\ op = "Status_with_reason"
  /\ op' = "HttpBuilder_response"
  /\ output' = HttpBuilder_response(Vec(<<>>), Version_http(1, 1), output)
  /\ UNCHANGED <<input, capacity, start, builder, calls, last>>

NextStatus ==
  StatusNew \/ StatusReason \/ StatusWithReason \/ ResponseWithReason

SpecStatus == InitStatus /\ [][NextStatus]_vars

(***************************************************************************)
(* The two Uri constructors, each applied once to the same drawn bytes     *)
(***************************************************************************)
UriPadAlphabet == {SLASH, LF}

\* Every byte value, alone and between short prefixes and suffixes.
UriInputs ==
  {p \o m \o s : p \in StringsUpTo(UriPadAlphabet, MaxPad),
                 m \in {<<>>} \cup {<<b>> : b \in Byte},
                 s \in StringsUpTo(UriPadAlphabet, MaxPad)}

InitUri ==
  /\ input \in UriInputs
  /\ op = "none"
  /\ output = NoOutput
  /\ BuilderIdle

Called(name) == \E k \in 1..Len(calls) : calls[k].op = name

UriTryNew ==
  /\ ~Called("Uri_try_new")
  /\ op' = "Uri_try_new"
  /\ output' = Uri_try_new(input)
  /\ calls' = Append(calls, [op |-> "Uri_try_new", out |-> Uri_try_new(input)])
  /\ UNCHANGED <<input, capacity, start, builder, last>>

UriTryNewConst ==
  /\ ~Called("Uri_try_new_const")
  /\ op' = "Uri_try_new_const"
  /\ output' = Uri_try_new_const(input)
  /\ calls' = Append(calls, [op |-> "Uri_try_new_const",
                             out |-> Uri_try_new_const(input)])
  /\ UNCHANGED <<input, capacity, start, builder, last>>

NextUri == UriTryNew \/ UriTryNewConst

SpecUri == InitUri /\ [][NextUri]_vars

(***************************************************************************)
(* Version::http on a drawn pair of u8, then write_to                      *)
(***************************************************************************)
InitVersion ==
  /\ input \in (0..255) \X (0..255)
  /\ op = "none"
  /\ output = NoOutput
  /\ BuilderIdle

VersionHttp ==
  /\ op = "none"
  /\ op' = "Version_http"
  /\ output' = Version_http(input[1], input[2])
  /\ UNCHANGED <<input, capacity, start, builder, calls, last>>

VersionWrite ==
  /\ op = "Version_http"
  /\ op' = "Version_write_to"
  /\ output' = Version_write_to(Vec(<<>>), output)
  /\ UNCHANGED <<input, capacity, start, builder, calls, last>>

NextVersion == VersionHttp \/ VersionWrite

SpecVersion == InitVersion /\ [][NextVersion]_vars

(***************************************************************************)
(* A try_ constructor, then the aborting constructor of the same type, on  *)
(* the same drawn bytes; calls keeps what the try_ constructor returned.   *)
(***************************************************************************)
NewInputs ==
  TokenInputs \cup UriInputs
    \cup StringsUpTo({CR, LF, SP, TAB, LOWER_A}, MaxLen - 2)

InitNew ==
  /\ input \in NewInputs
  /\ op = "none"
  /\ output = NoOutput
  /\ BuilderIdle

CheckedFieldNew ==
  /\ op = "CheckedField_try_new"
  /\ op' = "CheckedField_new"
  /\ output' = CheckedField_new(input)
  /\ calls' = <<[op |-> op, out |-> output]>>
  /\ UNCHANGED <<input, capacity, start, builder, last>>

CheckedValueNewAfterTry ==
  /\ op = "CheckedValue_try_new"
  /\ op' = "CheckedValue_new"
  /\ output' = CheckedValue_new(input)
  /\ calls' = <<[op |-> op, out |-> output]>>
  /\ UNCHANGED <<input, capacity, start, builder, last>>

HeaderNew ==
  /\ op = "Header_try_new"
  /\ op' = "Header_new"
  /\ output' = Header_new(input, <<LOWER_A>>)
  /\ calls' = <<[op |-> op, out |-> output]>>
  /\ UNCHANGED <<input, capacity, start, builder, last>>

MethodNew ==
  /\ op = "Method_try_new"
  /\ op' = "Method_new"
  /\ output' = Method_new(input)
  /\ calls' = <<[op |-> op, out |-> output]>>
  /\ UNCHANGED <<input, capacity, start, builder, last>>

UriTryNewFirst ==
  /\ op = "none"
  /\ op' = "Uri_try_new"
  /\ output' = Uri_try_new(input)
  /\ UNCHANGED <<input, capacity, start, builder, calls, last>>

UriNew ==
  /\ op = "Uri_try_new"
  /\ op' = "Uri_new"
  /\ output' = Uri_new(input)
  /\ calls' = <<[op |-> op, out |-> output]>>
  /\ UNCHANGED <<input, capacity, start, builder, last>>

UriTryNewConstFirst ==
  /\ op = "none"
  /\ op' = "Uri_try_new_const"
  /\ output' = Uri_try_new_const(input)
  /\ UNCHANGED <<input, capacity, start, builder, calls, last>>

UriNewConst ==
  /\ op = "Uri_try_new_const"
  /\ op' = "Uri_new_const"
  /\ output' = Uri_new_const(input)
  /\ calls' = <<[op |-> op, out |-> output]>>
  /\ UNCHANGED <<input, capacity, start, builder, last>>

NextNew ==
  \/ CheckedFieldTryNew \/ CheckedFieldNew
  \/ CheckedValueTryNew \/ CheckedValueNewAfterTry
  \/ HeaderTryNew \/ HeaderNew
  \/ MethodTryNew \/ MethodNew
  \/ UriTryNewFirst \/ UriNew
  \/ UriTryNewConstFirst \/ UriNewConst

SpecNew == InitNew /\ [][NextNew]_vars

(***************************************************************************)
(* write_to of each value type, applied once to a drawn value              *)
(***************************************************************************)
InitWrite ==
  /\ \/ \E k \in {"bytes", "str", "checked"}, b \in ValueInputs :
          input = [kind |-> k, bytes |-> b, int |-> 0, bits |-> 0]
     \/ \E k \in IntKinds, w \in Widths, n \in (0 - 32768)..65535 :
          /\ input = [kind |-> k, bytes |-> <<>>, int |-> n, bits |-> w]
          /\ InType(input)
  /\ op = "none"
  /\ output = NoOutput
  /\ BuilderIdle

WriteTo ==
  /\ op = "none"
  /\ op' = "write_to"
  /\ output' = value_write_to(Vec(<<>>), input)
  /\ UNCHANGED <<input, capacity, start, builder, calls, last>>

NextWrite == WriteTo

SpecWrite == InitWrite /\ [][NextWrite]_vars

(***************************************************************************)
(* The two scanning loops, one turn at a time.  op names the function that *)
(* runs, output is its local state, calls the positions next() returned.   *)
(***************************************************************************)
ScanAlphabet == {CR, LF, SP, DQUOTE, BACKSLASH}

ScanInputs == StringsUpTo(ScanAlphabet, MaxLen)

\* The counter of loop turns stops here, above every length drawn.
TurnCap == MaxLen + 2

Turn(n) == IF n < TurnCap THEN n + 1 ELSE TurnCap

\* One turn of the while loop of check_valid_const with a CR at idx:
\* break, return false, or the next value of prev.
check_valid_turn(value, idx) ==
  LET left == Len(value) - idx IN
  IF left <= 1 THEN [done |-> TRUE, valid |-> TRUE, prev |-> 0]
  ELSE IF left = 2
  THEN [done |-> TRUE, valid |-> At(value, 1) # LF, prev |-> 0]
  ELSE IF At(value, 1) = LF /\ At(value, 2) \in {SP, TAB}
  THEN [done |-> FALSE, valid |-> TRUE, prev |-> 3 + idx]
  ELSE IF At(value, 1) = LF THEN [done |-> TRUE, valid |-> FALSE, prev |-> 0]
  ELSE [done |-> FALSE, valid |-> TRUE, prev |-> 1 + idx]

InitScan ==
  /\ input \in ScanInputs
  /\ op \in {"next", "check_valid_const"}
  /\ output = [it |-> find_unquoted_crlf(input), prev |-> 0, turns |-> 0,
               done |-> FALSE, panic |-> FALSE, valid |-> TRUE]
  /\ calls = <<>>
  /\ BuilderIdle

\* A turn of the while loop of next(): find_next gave a position.
ScanTurn ==
  /\ op = "next" /\ ~output.done
  /\ output.it.offset <= Len(input)
  /\ find_next(input, output.it) # None
  /\ LET r == scan_arm(input, output.it, find_next(input, output.it)[1]) IN
       /\ output' = [output EXCEPT !.it = r.it, !.turns = Turn(@),
                                   !.panic = r.panic, !.done = r.panic]
       /\ calls' = IF r.item = None THEN calls ELSE Append(calls, r.item[1])
  /\ UNCHANGED <<input, op, capacity, start, builder, last>>

\* find_next gave None, or its slice was out of range: next() is over.
ScanNone ==
  /\ op = "next" /\ ~output.done
  /\ \/ output.it.offset > Len(input) /\ output' = [output EXCEPT !.done = TRUE, !.panic = TRUE]
     \/ /\ output.it.offset <= Len(input)
        /\ find_next(input, output.it) = None
        /\ output' = [output EXCEPT !.done = TRUE]
  /\ UNCHANGED <<input, op, capacity, start, builder, calls, last>>

\* A turn of the while loop of check_valid_const: memchr_const gave idx.
CheckTurn ==
  /\ op = "check_valid_const" /\ ~output.done
  /\ memchr_const(CR, input, output.prev) # None
  /\ LET r == check_valid_turn(input, memchr_const(CR, input, output.prev)[1]) IN
       output' = [output EXCEPT !.prev = IF r.done THEN @ ELSE r.prev,
                                !.turns = Turn(@),
                                !.done = r.done, !.valid = r.valid]
  /\ UNCHANGED <<input, op, capacity, start, builder, calls, last>>

\* memchr_const gave None: the loop is left and true returned.
CheckReturn ==
  /\ op = "check_valid_const" /\ ~output.done
  /\ memchr_const(CR, input, output.prev) = None
  /\ output' = [output EXCEPT !.done = TRUE]
  /\ UNCHANGED <<input, op, capacity, start, builder, calls, last>>

NextScan == ScanTurn \/ ScanNone \/ CheckTurn \/ CheckReturn

SpecScan == InitScan /\ [][NextScan]_vars

\* Sequential code: a loop that can take its next turn takes it.
SpecScanFair == SpecScan /\ WF_vars(NextScan)

(***************************************************************************)
(* Vocabulary of the claims                                                *)
(***************************************************************************)
\* There is a CRLF at index i of s (the CR at i, the LF at i + 1).
CrlfAt(s, i) == i >= 0 /\ i + 1 < Len(s) /\ At(s, i) = CR /\ At(s, i + 1) = LF

\* The CRLF at index i of s is not followed by space or tab: a bare CRLF.
BareCrlfAt(s, i) ==
  CrlfAt(s, i) /\ ~(i + 2 < Len(s) /\ At(s, i + 2) \in {SP, TAB})

BareCrlfs(s) == {i \in 0..(Len(s) - 1) : BareCrlfAt(s, i)}

Wrote(name) == op = name /\ output.res = "Ok"
WroteUntrusted == Wrote("bytes_write_to") \/ Wrote("str_write_to")

\* s with one tab inserted after the CRLF at each index of the set at.
RECURSIVE WithTabsAfter(_, _, _)
WithTabsAfter(s, at, i) ==
  IF i >= Len(s) THEN <<>>
  ELSE <<At(s, i)>> \o (IF (i - 1) \in at THEN <<TAB>> ELSE <<>>)
                    \o WithTabsAfter(s, at, i + 1)

\* The quote flag in front of index i, as RFC 7230 reads a quoted-string:
\* a double quote opens or closes a region unless a backslash escapes it.
RECURSIVE QuotedBefore(_, _, _, _)
QuotedBefore(s, i, k, q) ==
  IF k >= i THEN q
  ELSE IF At(s, k) = BACKSLASH /\ k + 1 < Len(s) /\ At(s, k + 1) \in {DQUOTE, BACKSLASH}
       THEN IF k + 1 >= i THEN q ELSE QuotedBefore(s, i, k + 2, q)
  ELSE IF At(s, k) = DQUOTE THEN QuotedBefore(s, i, k + 1, ~q)
  ELSE QuotedBefore(s, i, k + 1, q)

InQuotedRegion(s, i) == QuotedBefore(s, i, 0, FALSE)

TAB_AFTER_LINE1 == <<108, 105, 110, 101, 49, 13, 10, 9, 108, 105, 110, 101, 50>>

Written == output.buf.bytes

\* The index in the output of the byte at index i of s, when a tab has been
\* inserted after each CRLF of the set folded that lies in front of it.
Shifted(folded, i) == i + Cardinality({k \in folded : k < i})

TabFollowsAt(out, j) ==
  CrlfAt(out, j) /\ j + 2 < Len(out) /\ At(out, j + 2) = TAB

UnquotedBareCrlfs(s) == {i \in BareCrlfs(s) : ~InQuotedRegion(s, i)}

\* RFC 7230 tchar, from its grammar.
TChar ==
  (65..90) \cup (97..122) \cup (48..57)
    \cup {33, 35, 36, 37, 38, 39, 42, 43, 45, 46, 94, 95, 96, 124, 126}

\* Control characters, space, DEL, the RFC 7230 delimiters, the high bytes.
Delimiters == {34, 40, 41, 44, 47, 58, 59, 60, 61, 62, 63, 64, 91, 92, 93, 123, 125}
NotInNames == (0..31) \cup {SP, 127} \cup Delimiters \cup (128..255)

Bytes(s) == {s[i] : i \in 1..Len(s)}

(***************************************************************************)
(* Claims                                                                  *)
(***************************************************************************)

\* C2: writing a byte string or a string through the untrusted path puts a
\* tab right after every CRLF of the input that was not followed by space or
\* tab, a CRLF inside a double-quoted region included; so every CRLF of the
\* output is followed by space or tab.
C2_EveryBareCrlfFolded ==
  WroteUntrusted =>
    /\ \A i \in BareCrlfs(input) :
         TabFollowsAt(Written, Shifted(BareCrlfs(input), i))
    /\ BareCrlfs(Written) = {}

\* C3: the untrusted encoding inserts a tab after every CRLF of the input
\* that lies outside a quoted region (double quotes not escaped by a
\* backslash delimit one) and is not followed by space or tab, whatever
\* bytes precede it.
C3_EveryUnquotedBareCrlfFolded ==
  WroteUntrusted =>
    \A i \in UnquotedBareCrlfs(input) :
      TabFollowsAt(Written, Shifted(UnquotedBareCrlfs(input), i))

\* C4: CheckedValue::try_new(v) is Ok exactly when every CRLF of v, at any
\* offset, is followed by space or tab; otherwise it is InvalidHeaderError.
C4_TryNewOkIffNoBareCrlf ==
  op = "CheckedValue_try_new" =>
    /\ output.ok <=> (BareCrlfs(input) = {})
    /\ ~output.ok => output.err = "InvalidHeaderError"

\* C5: is_token(s) is true exactly when s is non-empty and every byte of s
\* is an RFC 7230 tchar; every byte >= 128 is rejected.
C5_IsTokenIffTchars ==
  op = "is_token" =>
    (output.ok <=> (input # <<>> /\ Bytes(input) \subseteq TChar))

\* C6: CheckedField::try_new, Header::try_new and Method::try_new return
\* their error for the empty name and for every name holding a control
\* character, a space, DEL, a delimiter or a byte >= 128; an accepted name
\* holds no CR, LF, space or colon.
C6_NamesRejected ==
  op \in {"CheckedField_try_new", "Header_try_new", "Method_try_new"} =>
    /\ (input = <<>> \/ Bytes(input) \cap NotInNames # {}) =>
         /\ ~output.ok
         /\ output.err = (IF op = "Method_try_new" THEN "InvalidMethodError"
                          ELSE "InvalidHeaderError")
    /\ output.ok =>
         LET name == IF op = "Header_try_new" THEN output.field ELSE output.value
         IN name = input /\ Bytes(name) \cap {CR, LF, SP, COLON} = {}

C6_Witness ==
  /\ op = "Header_try_new"
  /\ COLON \in Bytes(input)
  /\ ~output.ok

\* C7: the untrusted encoding only inserts tabs: the output is the input
\* with single tabs inserted, each right after a CRLF of the input, and is
\* longer than the input by the number of tabs; line1\r\nline2 becomes
\* line1\r\n\tline2.
C7_OnlyTabsInserted ==
  WroteUntrusted =>
    /\ \E at \in SUBSET {i \in 0..(Len(input) - 1) : CrlfAt(input, i)} :
         /\ Written = WithTabsAfter(input, at, 0)
         /\ Len(Written) = Len(input) + Cardinality(at)
    /\ input = LINE1_LINE2 => Written = TAB_AFTER_LINE1

C7_Witness ==
  /\ Wrote("str_write_to")
  /\ input = LINE1_LINE2
  /\ Written = TAB_AFTER_LINE1

\* C8: a string with no bare CRLF (every CRLF followed by space or tab, a
\* lone CR, a lone LF, no CR at all) is written unchanged.
C8_NoBareCrlfUnchanged ==
  (WroteUntrusted /\ BareCrlfs(input) = {}) => Written = input

C8_Witness ==
  /\ Wrote("bytes_write_to")
  /\ input = <<LOWER_A, CR, LF, TAB, CR>>
  /\ Written = input

\* Every header() call made so far returned Ok.
AllHeadersOk == \A k \in 1..Len(calls) : calls[k].res = "Ok"

\* The bytes this builder appended to the destination it was handed.
Emitted == Slice(builder.buffer.bytes, Len(capacity.bytes), Len(builder.buffer.bytes))

\* The decimal form of a natural number, most significant digit first.
RECURSIVE Decimal(_)
Decimal(n) ==
  IF n < 10 THEN <<ZERO + n>> ELSE Decimal(n \div 10) \o <<ZERO + (n % 10)>>

\* The bytes a value's write_to gives when nothing limits it.
Encoding(value) == value_write_to(Vec(<<>>), value).buf.bytes

RECURSIVE HeaderLines(_)
HeaderLines(cs) ==
  IF cs = <<>> THEN <<>>
  ELSE Head(cs).field \o <<COLON, SP>> \o Encoding(Head(cs).value) \o CRLF
         \o HeaderLines(Tail(cs))

RequestLine ==
  start.method \o <<SP>> \o start.uri \o <<SP>> \o HTTP \o <<SLASH>>
    \o Decimal(start.version.major) \o <<DOT>> \o Decimal(start.version.minor)
    \o CRLF

GET_ROOT_1_1 ==
  <<71, 69, 84, 32, 47, 32, 72, 84, 84, 80, 47, 49, 46, 49, 13, 10, 13, 10>>

\* C1: after request(...) or response(...) with a table-derived reason, n
\* header() calls and finish(), all returning Ok, with checked field names
\* and values that are untrusted strings, integers or accepted CheckedValues,
\* the emitted bytes hold exactly n + 2 CRLFs not followed by space or tab.
C1_NoSplitting ==
  ( /\ builder.phase = "finished"
    /\ start.kind = "request" \/ (start.kind = "response" /\ start.tabled)
    /\ AllHeadersOk )
  => Cardinality(BareCrlfs(Emitted)) = Len(calls) + 2

\* C9: after a start and k header() calls that all returned Ok, the buffer
\* is the start content followed, in call order, by field name, ": ", the
\* value's encoding and CRLF for each call; repeated names are each emitted.
C9_HeadersInCallOrder ==
  (builder.phase \in {"headers", "returned"} /\ AllHeadersOk)
  => builder.buffer.bytes = start.content \o HeaderLines(calls)

C9_Witness ==
  /\ builder.phase = "headers"
  /\ Len(calls) = 2
  /\ AllHeadersOk
  /\ calls[1].field = calls[2].field
  /\ calls[1].value = StrValue(<<LOWER_A, CR, LF, LOWER_A>>)
  /\ calls[2].value = SignedValue(0 - 10, 8)
  /\ start.kind = "from_buffer"
  /\ start.content = CUSTOM_LINE

\* C10: request(buf, method, uri, version) appends METHOD SP URI SP
\* HTTP/major.minor CRLF, and finish() with no headers adds one CRLF:
\* GET, /, HTTP/1.1 give exactly GET / HTTP/1.1\r\n\r\n.
C10_RequestLine ==
  (start.kind = "request" /\ calls = <<>>) =>
    /\ builder.phase = "headers" => Emitted = RequestLine
    /\ builder.phase = "finished" => Emitted = RequestLine \o CRLF
    /\ ( /\ builder.phase = "finished"
         /\ start.method = GET
         /\ start.uri = ROOT
         /\ start.version = Version_http(1, 1) )
       => Emitted = GET_ROOT_1_1

C10_Witness ==
  /\ builder.phase = "finished"
  /\ start.kind = "request"
  /\ calls = <<>>
  /\ capacity = Vec(<<>>)
  /\ builder.buffer.bytes = GET_ROOT_1_1

\* The reason phrase a status renders: its phrase, or nothing.
Phrase(status) == IF status.reason = None THEN <<>> ELSE status.reason[1]

ResponseLine ==
  HTTP \o <<SLASH>> \o Decimal(start.version.major) \o <<DOT>>
    \o Decimal(start.version.minor) \o <<SP>> \o Decimal(start.status.code)
    \o <<SP>> \o Phrase(start.status) \o CRLF

HTTP_1_0_418_TEAPOT ==
  <<72, 84, 84, 80, 47, 49, 46, 48, 32, 52, 49, 56, 32, 73, 39, 109, 32, 97,
    32, 84, 101, 97, 112, 111, 116, 13, 10, 13, 10>>

\* C11: response(buf, version, status) appends VERSION SP the code in decimal
\* SP the reason phrase CRLF, the phrase being empty when the status has
\* none; HTTP/1.0 with Status::with_reason(418, "I'm a Teapot") and finish()
\* give exactly HTTP/1.0 418 I'm a Teapot\r\n\r\n.
C11_ResponseLine ==
  (start.kind = "response" /\ calls = <<>>) =>
    /\ builder.phase = "headers" => Emitted = ResponseLine
    /\ builder.phase = "finished" => Emitted = ResponseLine \o CRLF
    /\ (builder.phase = "headers" /\ start.status.reason = None)
       => Slice(Emitted, Len(Emitted) - 3, Len(Emitted)) = <<SP>> \o CRLF
    /\ ( /\ builder.phase = "finished"
         /\ start.version = Version_http(1, 0)
         /\ start.status = Status_with_reason(418, TEAPOT) )
       => Emitted = HTTP_1_0_418_TEAPOT

C11_Witness ==
  /\ builder.phase = "finished"
  /\ start.kind = "response"
  /\ start.status = Status_with_reason(418, TEAPOT)
  /\ calls = <<>>
  /\ capacity = Vec(<<>>)
  /\ builder.buffer.bytes = HTTP_1_0_418_TEAPOT

\* C12: finish() appends exactly one CRLF and returns the buffer;
\* into_inner() returns the buffer with no byte appended; from_buffer(b)
\* appends nothing, so the bytes of b begin the output and the header() and
\* finish() calls that follow continue after them.
C12_OnlyStatedBytesAppended ==
  [][ /\ (builder.phase = "headers" /\ builder'.phase = "finished")
         => builder'.buffer.bytes = builder.buffer.bytes \o CRLF
      /\ (builder.phase = "headers" /\ builder'.phase = "returned")
         => builder'.buffer = builder.buffer
      /\ (builder.phase = "none" /\ start'.kind = "from_buffer")
         => /\ builder'.buffer = capacity
            /\ builder'.phase = "headers"
      /\ (start.kind = "from_buffer" /\ builder'.phase = "finished" /\ AllHeadersOk)
         => builder'.buffer.bytes = capacity.bytes \o HeaderLines(calls) \o CRLF
    ]_vars

C12_Witness ==
  /\ builder.phase = "finished"
  /\ start.kind = "from_buffer"
  /\ capacity = Vec(CUSTOM_LINE)
  /\ Len(calls) = 1
  /\ AllHeadersOk
  /\ builder.buffer.bytes = CUSTOM_LINE \o HeaderLines(calls) \o CRLF

\* The bytes a job appends when nothing limits it.
Unlimited(job) ==
  CASE job.path = "value" -> Encoding(job.value)
    [] job.path = "header"
       -> job.field \o <<COLON, SP>> \o Encoding(job.value) \o CRLF
    [] job.path = "request"
       -> HttpBuilder_request(Vec(<<>>), job.method, job.uri, job.version).buf.bytes
    [] job.path = "response"
       -> HttpBuilder_response(Vec(<<>>), job.version, job.status).buf.bytes
    [] job.path = "finish" -> CRLF
    [] job.path = "try_put_slice" -> job.value.bytes
    [] job.path = "try_put_u8" -> <<job.value.int>>

SpaceWritten == op # "none" /\ input \in SpaceJobs

\* C13: every write path (integer, byte string, string, CheckedValue,
\* Header, request line, status line, finish) returns InsufficientSpaceError
\* and never panics when the remaining capacity of the destination, from
\* zero upward, is too small for the pieces it has to append, and returns Ok
\* with all of them appended when the capacity is enough.
C13_InsufficientSpaceNeverPanics ==
  SpaceWritten =>
    /\ output.res # "panic"
    /\ Len(Unlimited(input)) > remaining_mut(capacity)
         => output.res = "InsufficientSpaceError"
    /\ Len(Unlimited(input)) <= remaining_mut(capacity)
         => /\ output.res = "Ok"
            /\ output.buf.bytes = capacity.bytes \o Unlimited(input)

C13_Witness ==
  /\ SpaceWritten
  /\ input.path = "header"
  /\ input.value = SignedValue(0 - 10, 8)
  /\ remaining_mut(capacity) = 3
  /\ output.res = "InsufficientSpaceError"
  /\ output.buf.bytes = capacity.bytes \o <<65, COLON, SP>>

IsPrefix(p, s) == Len(p) <= Len(s) /\ SubSeq(s, 1, Len(p)) = p

\* The bytes a step appended to the builder's buffer.
Appended == Slice(builder'.buffer.bytes, Len(builder.buffer.bytes),
                  Len(builder'.buffer.bytes))

StartLine ==
  IF start'.kind = "request"
  THEN HttpBuilder_request(Vec(<<>>), start'.method, start'.uri, start'.version).buf.bytes
  ELSE HttpBuilder_response(Vec(<<>>), start'.version, start'.status).buf.bytes

LastHeaderLine == HeaderLines(<<calls'[Len(calls')]>>)

\* C14: the builder never rolls back and never rewrites: over every step,
\* failed or not, the buffer before the step is a prefix of the buffer after
\* it; when a start line or a header() fails for lack of space the bytes of
\* the sub-writes that came before the failing one stay in the buffer.
C14_NeverRollsBack ==
  [][ /\ IsPrefix(builder.buffer.bytes, builder'.buffer.bytes)
      /\ (Len(calls') > Len(calls) /\ last' = "InsufficientSpaceError")
         => /\ IsPrefix(Appended, LastHeaderLine)
            /\ Appended # LastHeaderLine
            /\ LET field == calls'[Len(calls')].field IN
               /\ Len(field) <= remaining_mut(builder.buffer)
                    => IsPrefix(field, Appended)
               /\ Len(field) + 2 <= remaining_mut(builder.buffer)
                    => IsPrefix(field \o <<COLON, SP>>, Appended)
      /\ ( /\ builder.phase = "none"
           /\ start'.kind \in {"request", "response"}
           /\ last' = "InsufficientSpaceError" )
         => /\ IsPrefix(Appended, StartLine)
            /\ Appended # StartLine
            /\ (start'.kind = "request" /\ Len(start'.method) <= remaining_mut(capacity))
                 => IsPrefix(start'.method, Appended)
            /\ (start'.kind = "response" /\ Len(HTTP) <= remaining_mut(capacity))
                 => IsPrefix(HTTP, Appended)
    ]_vars

C14_Witness ==
  /\ builder.phase = "headers"
  /\ Len(calls) = 2
  /\ calls[1].res = "Ok"
  /\ calls[2].res = "InsufficientSpaceError"
  /\ ~capacity.growable
  /\ Len(builder.buffer.bytes) > Len(start.content \o HeaderLines(<<calls[1]>>))

WroteInt == op \in {"unsigned_write_to", "signed_write_to"}

\* The number a string of decimal digits stands for; -1 when a byte of it
\* is no digit or the string is empty.
RECURSIVE ParseDigits(_, _)
ParseDigits(s, acc) ==
  IF s = <<>> THEN acc
  ELSE IF Head(s) \notin ZERO..(ZERO + 9) THEN 0 - 1
  ELSE ParseDigits(Tail(s), (10 * acc) + (Head(s) - ZERO))

\* str::parse of the signed and unsigned types; None when it fails.
Parse(s) ==
  LET digits == IF s # <<>> /\ Head(s) = MINUS THEN Tail(s) ELSE s IN
  IF digits = <<>> \/ ParseDigits(digits, 0) < 0 THEN None
  ELSE IF s[1] = MINUS THEN Some(0 - ParseDigits(digits, 0))
  ELSE Some(ParseDigits(digits, 0))

\* C15: for every unsigned and signed integer of a supported width (here all
\* values of the 8 and 16 bit types), write_to emits its plain decimal form:
\* most significant digit first, no leading zero, "0" for zero, one leading
\* '-' for a negative value; parsing the output gives the value back.
C15_PlainDecimal ==
  WroteInt =>
    /\ output.res = "Ok"
    /\ Written = (IF input.int < 0 THEN <<MINUS>> \o Decimal(0 - input.int)
                  ELSE Decimal(input.int))
    /\ Parse(Written) = Some(input.int)
    /\ input.int = 0 => Written = <<ZERO>>
    /\ LET digits == IF input.int < 0 THEN Tail(Written) ELSE Written IN
       /\ (input.int < 0) <=> (Written[1] = MINUS)
       /\ Bytes(digits) \subseteq ZERO..(ZERO + 9)
       /\ Len(digits) > 1 => digits[1] # ZERO

C15_Witness ==
  /\ op = "signed_write_to"
  /\ input = SignedValue(0 - 32768, 16)
  /\ Written = <<MINUS, 51, 50, 55, 54, 56>>

\* C16: for a negative value of a signed type of w bits, the magnitude is
\* !value + 1 on the value reinterpreted as unsigned; the addition never
\* leaves the w bits, and the result is the absolute value, also for the
\* minimum of the type (i8::MIN is written as -128).
C16_MagnitudeWithoutOverflow ==
  (op = "signed_write_to" /\ input.int < 0) =>
    LET m == negate(as_unsigned(input.int, input.bits), input.bits) IN
    /\ ~m.overflow
    /\ m.value = (bit_not(as_unsigned(input.int, input.bits), input.bits) + 1)
                   % (2 ^ input.bits)
    /\ m.value = 0 - input.int
    /\ output.res = "Ok"
    /\ Written = <<MINUS>> \o Decimal(0 - input.int)
    /\ input = SignedValue(0 - 128, 8) => Written = <<MINUS, 49, 50, 56>>

C16_Witness ==
  /\ op = "signed_write_to"
  /\ input = SignedValue(0 - 128, 8)
  /\ Written = <<MINUS, 49, 50, 56>>

\* The phrase the static table registers for a code, empty when none is.
Registered(code) ==
  IF phrase_at(code) = None THEN <<>> ELSE phrase_at(code)[1]

\* C17: for every u16 code Status::new(code) returns without a panic, and
\* reason() is the phrase the static table registers for the code (418:
\* I'm a Teapot), empty for codes below 100, for unassigned codes inside
\* the table (306, 419) and for every code above its last entry 511.
C17_NewNeverPanics ==
  /\ op = "Status_new" => ~output.panic
  /\ op = "Status_reason" =>
       /\ output.phrase = Registered(input)
       /\ input = 418 => output.phrase = TEAPOT
       /\ (input < PHRASES_MIN \/ input > PHRASES_MAX \/ input \in {306, 419})
            => output.phrase = <<>>

\* C18: Uri::try_new(u) is Ok exactly when u is not empty and holds no
\* space, CR or LF; every other byte, NUL and the bytes from 128 on
\* included, is let through, and a rejected u gives InvalidUriError.
C18_UriOkIffNoSpaceCrLf ==
  op = "Uri_try_new" =>
    /\ output.ok <=> (input # <<>> /\ Bytes(input) \cap {SP, CR, LF} = {})
    /\ output.ok => output.value = input
    /\ ~output.ok => output.err = "InvalidUriError"

C18_Witness ==
  /\ op = "Uri_try_new"
  /\ input = <<SLASH, 0, SLASH>>
  /\ output.ok
  /\ output.value = input

\* C19: Uri::try_new (the memchr3 scan) and Uri::try_new_const (the
\* sequential validate_uri scan) agree on every input, the empty one
\* included: one is Ok exactly when the other is, and both store the same
\* bytes.
C19_UriPathsAgree ==
  (Called("Uri_try_new") /\ Called("Uri_try_new_const")) =>
    /\ calls[1].out.ok <=> calls[2].out.ok
    /\ calls[1].out = calls[2].out
    /\ calls[1].out.ok => calls[1].out.value = input /\ calls[2].out.value = input

C19_Witness ==
  /\ Called("Uri_try_new")
  /\ Called("Uri_try_new_const")
  /\ input = <<>>
  /\ ~calls[1].out.ok
  /\ ~calls[2].out.ok

\* C20: for every byte string v that CheckedValue::new accepts, new(v)
\* equals new_unchecked(v), as_bytes() is exactly v, and write_to appends
\* exactly the bytes of v: nothing is rewritten and no tab is inserted.
C20_CheckedValueVerbatim ==
  /\ (op = "CheckedValue_new" /\ ~output.panic) =>
       /\ output.value = output.unchecked
       /\ output.as_bytes = input
  /\ op = "CheckedValue_write_to" =>
       /\ output.res = "Ok"
       /\ Written = input

C20_Witness ==
  /\ op = "CheckedValue_write_to"
  /\ input = <<CR, LF, TAB, LOWER_A>>
  /\ Written = input

\* C21: the untrusted CRLF rewriting is idempotent: encoding the output of
\* encoding v gives the bytes of encoding v once; the second pass inserts
\* no further tab.
C21_EncodingIdempotent ==
  op = "write_to_again" =>
    /\ output.res = "Ok"
    /\ Written = calls[1].out.buf.bytes

C21_Witness ==
  /\ op = "write_to_again"
  /\ input = LINE1_LINE2
  /\ calls[1].out.buf.bytes = TAB_AFTER_LINE1
  /\ Written = TAB_AFTER_LINE1

HTTP_1_1_SP == <<72, 84, 84, 80, 47, 49, 46, 49, 32>>

\* C22: a reason phrase given with Status::with_reason(code, reason)
\* overrides the table lookup for every code, one with a registered phrase
\* too, and response() writes it into the status line byte for byte,
\* unvalidated and unchanged.
C22_GivenReasonOverrides ==
  /\ op = "Status_with_reason" =>
       /\ ~output.panic
       /\ output.code = input
       /\ output.reason = Some(calls[1].reason)
  /\ op = "HttpBuilder_response" =>
       /\ output.res = "Ok"
       /\ Written = HTTP_1_1_SP \o Decimal(input) \o <<SP>>
                       \o calls[1].reason \o CRLF

C22_Witness ==
  /\ op = "HttpBuilder_response"
  /\ input = 200
  /\ calls[1].reason = <<CR, LF, 88>>
  /\ Written = HTTP_1_1_SP \o <<50, 48, 48, SP, CR, LF, 88>> \o CRLF

\* A decimal numeral without a leading zero, "0" itself allowed.
NoLeadingZero(digits) ==
  /\ digits # <<>>
  /\ Bytes(digits) \subseteq ZERO..(ZERO + 9)
  /\ Len(digits) > 1 => digits[1] # ZERO

\* C23: Version::http(major, minor) takes every pair of u8 as it is, and
\* the version renders as HTTP/ followed by major in decimal, a dot and
\* minor in decimal, both without leading zeros, for 0 and for values of
\* two or three digits too.
C23_VersionRendering ==
  /\ op = "Version_http" =>
       /\ output.major = input[1]
       /\ output.minor = input[2]
       /\ output.proto = HTTP
  /\ op = "Version_write_to" =>
       /\ output.res = "Ok"
       /\ Written = HTTP \o <<SLASH>> \o Decimal(input[1]) \o <<DOT>>
                       \o Decimal(input[2])
       /\ NoLeadingZero(Decimal(input[1]))
       /\ NoLeadingZero(Decimal(input[2]))
       /\ Parse(Decimal(input[1])) = Some(input[1])
       /\ Parse(Decimal(input[2])) = Some(input[2])

C23_Witness ==
  /\ op = "Version_write_to"
  /\ input = <<0, 255>>
  /\ Written = <<72, 84, 84, 80, 47, 48, 46, 50, 53, 53>>

\* The try_ constructor that an aborting constructor stands beside.
TryOf(name) ==
  CASE name = "CheckedField_new" -> "CheckedField_try_new"
    [] name = "CheckedValue_new" -> "CheckedValue_try_new"
    [] name = "Header_new" -> "Header_try_new"
    [] name = "Method_new" -> "Method_try_new"
    [] name = "Uri_new" -> "Uri_try_new"
    [] name = "Uri_new_const" -> "Uri_try_new_const"

Aborting ==
  {"CheckedField_new", "CheckedValue_new", "Header_new", "Method_new",
   "Uri_new", "Uri_new_const"}

\* C24: for each validated type the aborting constructor and the try_
\* constructor agree on every input: CheckedField::new, CheckedValue::new,
\* Header::new, Method::new, Uri::new and Uri::new_const panic exactly where
\* the matching try_ constructor returns Err, and return the value of its
\* Ok otherwise.
C24_NewAgreesWithTryNew ==
  (op \in Aborting /\ calls # <<>>) =>
    /\ calls[1].op = TryOf(op)
    /\ output.panic <=> ~calls[1].out.ok
    /\ ~output.panic =>
         IF op = "Header_new"
         THEN /\ output.field = calls[1].out.field
              /\ output.value = calls[1].out.value
              /\ output.field = input
         ELSE /\ output.value = calls[1].out.value
              /\ output.value = input

C24_Witness ==
  /\ op = "Uri_new_const"
  /\ calls # <<>>
  /\ input = <<>>
  /\ output.panic
  /\ ~calls[1].out.ok

\* The value of tests::quoted_crlf_field as the test expects it written.
QUOTED_CRLF_FIELD_WRITTEN ==
  <<34, 81, 117, 111, 116, 101, 100, 32, 119, 105, 116, 104, 32, 110, 101,
    119, 108, 105, 110, 101, 13, 10, 97, 110, 100, 32, 97, 110, 111, 116,
    104, 101, 114, 32, 108, 105, 110, 101, 34, 32, 98, 117, 116, 32, 97,
    108, 115, 111, 32, 13, 10, 9, 111, 110, 101, 32, 111, 117, 116, 115,
    105, 100, 101>>

\* The CRLFs of s with an odd number of counted double quotes in front.
QuotedCrlfs(s) ==
  {i \in 0..(Len(s) - 1) : CrlfAt(s, i) /\ InQuotedRegion(s, i)}

\* No double quote and no backslash stands in front of index i of s.
PlainBefore(s, i) ==
  \A k \in 0..(i - 1) : At(s, k) \notin {DQUOTE, BACKSLASH}

\* C25: the quote flag starts false and toggles on every double quote that
\* no backslash escape skips: a CRLF with an odd number of such quotes in
\* front is written unchanged, without a tab, inside a balanced quoted
\* region and, after an unbalanced quote, to the end of the value; in
\* "Quoted with newline\r\nand another line" but also \r\none outside only
\* the second CRLF gets a tab.
C25_QuoteFlagToggles ==
  WroteUntrusted =>
    /\ \E at \in SUBSET ({i \in 0..(Len(input) - 1) : CrlfAt(input, i)}
                           \ QuotedCrlfs(input)) :
         Written = WithTabsAfter(input, at, 0)
    /\ \A i \in BareCrlfs(input) :
         PlainBefore(input, i)
           => TabFollowsAt(Written, Shifted(BareCrlfs(input), i))
    /\ input = QUOTED_CRLF_FIELD => Written = QUOTED_CRLF_FIELD_WRITTEN
    /\ input = <<DQUOTE, CR, LF, LOWER_A, CR, LF>> => Written = input

C25_Witness ==
  /\ Wrote("str_write_to")
  /\ input = QUOTED_CRLF_FIELD
  /\ QuotedCrlfs(input) = {20}
  /\ Written = QUOTED_CRLF_FIELD_WRITTEN

\* C27: the trusted and the untrusted path agree on every pre-validated
\* value: for every byte string v that CheckedValue::try_new accepts, the
\* untrusted write_to of v emits what writing CheckedValue(v) emits, v
\* unchanged.
C27_PathsAgreeOnAccepted ==
  (WroteUntrusted /\ CheckedValue_try_new(input).ok) =>
    /\ Written = CheckedValue_write_to(Vec(<<>>), input).buf.bytes
    /\ Written = input

RECURSIVE YieldedFrom(_, _)
YieldedFrom(bytes, it) ==
  LET r == next(bytes, it) IN
  IF r.panic THEN [items |-> <<>>, panic |-> TRUE]
  ELSE IF r.item = None THEN [items |-> <<>>, panic |-> FALSE]
  ELSE LET rest == YieldedFrom(bytes, r.it) IN
       [items |-> <<r.item[1]>> \o rest.items, panic |-> rest.panic]

Yielded(bytes) == YieldedFrom(bytes, find_unquoted_crlf(bytes))

\* The magnitude that the digit loop is given.
Magnitude(value) == IF value.int < 0 THEN 0 - value.int ELSE value.int

\* C28: no write_to panics because of its input: for every byte string, one
\* ending in a backslash, a lone CR, a quote or CRLF too, the scanner never
\* reaches its unreachable!() arm and never slices or indexes out of bounds,
\* every position it yields is that of a CR followed by LF, and for every
\* integer the digit loop writes at most ilog10(MAX) digits, ilog10(x)
\* being the number of decimal digits of x, 1 for 0.
C28_NoPanicFromInput ==
  op = "write_to" =>
    /\ output.res = "Ok"
    /\ input.kind \in {"bytes", "str"} =>
         /\ ~Yielded(input.bytes).panic
         /\ \A k \in 1..Len(Yielded(input.bytes).items) :
              CrlfAt(input.bytes, Yielded(input.bytes).items[k])
    /\ input.kind \in IntKinds =>
         /\ Len(digits_of(Magnitude(input), <<>>)) <= ilog10(MAX(input.bits))
         /\ ilog10(Magnitude(input)) = Len(Decimal(Magnitude(input)))
         /\ ilog10(0) = 1

C28_Witness ==
  /\ op = "write_to"
  /\ input = BytesValue(<<CR, LF, DQUOTE, CR, BACKSLASH>>)
  /\ Yielded(input.bytes).items = <<0>>
  /\ output.res = "Ok"

\* A turn after which the loop goes on moved the index forward.
TurnAdvances ==
  ~output'.done =>
    /\ op = "next" => output'.it.offset > output.it.offset
    /\ op = "check_valid_const" => output'.prev > output.prev

\* A position returned by next() left the offset past it.
YieldAdvances ==
  calls' # calls =>
    /\ output'.it.offset > output.it.offset
    /\ output'.it.offset = calls'[Len(calls')] + 2

StrictlyIncreasing(seq) == \A i, j \in 1..Len(seq) : i < j => seq[i] < seq[j]

ScanBounded ==
  /\ output.it.offset <= Len(input)
  /\ output.prev <= Len(input)
  /\ output.turns <= Len(input)
  /\ ~output.panic
  /\ StrictlyIncreasing(calls)

\* The stepped loops end where the functions of the whole input end.
ScanAgrees ==
  output.done =>
    /\ op = "next" => calls = Yielded(input).items
    /\ op = "check_valid_const" => output.valid = check_valid_const(input)

\* C29: the CRLF scanner always terminates: the offset of the iterator
\* grows strictly on every loop turn and on every position returned, never
\* passes the length of the input, the positions returned grow strictly,
\* and None is returned after at most len(input) turns; the start index of
\* CheckedValue::check_valid_const grows strictly too, and the function
\* returns on every input.
C29_ScannerTerminates ==
  /\ [][TurnAdvances /\ YieldAdvances]_vars
  /\ [](ScanBounded /\ ScanAgrees)
  /\ <>(output.done)

C29_Witness ==
  /\ op = "next"
  /\ input = <<BACKSLASH, CR, LF, CR, LF>>
  /\ output.done
  /\ output.turns = 2
  /\ calls = <<3>>

\* The CRLFs of data after which write_to puts a tab.
Folded(data) ==
  {p \in 0..(Len(data) - 1) :
     /\ \E k \in 1..Len(Yielded(data).items) : Yielded(data).items[k] = p
     /\ ~is_folded(data, p)}

\* The lengths at which the encoding of a value ends a whole piece: a chunk
\* up to a CRLF, the tab after it, the sign, the digits, the whole value.
ValueCuts(value) ==
  CASE value.kind \in {"bytes", "str"}
       -> {0, Len(Encoding(value))}
            \cup {Shifted(Folded(value.bytes), p + 2) - 1 : p \in Folded(value.bytes)}
            \cup {Shifted(Folded(value.bytes), p + 2) : p \in Folded(value.bytes)}
    [] value.kind = "checked" -> {0, Len(value.bytes)}
    [] value.kind = "unsigned" -> {0, Len(Encoding(value))}
    [] value.kind = "signed"
       -> {0, Len(Encoding(value))} \cup (IF value.int < 0 THEN {1} ELSE {})

\* The same for a header: the field name, ": ", the pieces of the value.
HeaderCuts(job) ==
  {0, Len(job.field)}
    \cup {Len(job.field) + 2 + c : c \in ValueCuts(job.value)}

\* What the call appended to the destination.
SpaceAppended ==
  Slice(output.buf.bytes, Len(capacity.bytes), Len(output.buf.bytes))

\* An append either took the whole argument or took nothing.
AllOrNothing(arg) ==
  IF remaining_mut(capacity) < Len(arg)
  THEN /\ output.res = "InsufficientSpaceError"
       /\ output.buf.bytes = capacity.bytes
       /\ remaining_mut(output.buf) = remaining_mut(capacity)
  ELSE /\ output.res = "Ok"
       /\ output.buf.bytes = capacity.bytes \o arg
       /\ remaining_mut(output.buf) = remaining_mut(capacity) - Len(arg)

\* C30: each fallible append of the sink is all-or-nothing: try_put_slice
\* and try_put_u8 append the whole argument and return Ok, or, with less
\* room than the argument takes, return InsufficientSpaceError and leave
\* the contents and the remaining capacity as they were; so a header()
\* that failed left whole pieces only (the field name, ": ", the chunks of
\* the value), never a part of one.
C30_AppendsAllOrNothing ==
  /\ op = "try_put_slice" => AllOrNothing(input.value.bytes)
  /\ op = "try_put_u8" => AllOrNothing(<<input.value.int>>)
  /\ (op = "Header_write_to" /\ output.res = "InsufficientSpaceError") =>
       /\ IsPrefix(capacity.bytes, output.buf.bytes)
       /\ IsPrefix(SpaceAppended, Unlimited(input))
       /\ Len(SpaceAppended) \in HeaderCuts(input)

C30_Witness ==
  /\ op = "Header_write_to"
  /\ input = HeaderJob(<<65>>, BytesValue(<<LOWER_A, CR, LF>>))
  /\ capacity = FixedBuf(CUSTOM_LINE, Len(CUSTOM_LINE) + 6)
  /\ output.res = "InsufficientSpaceError"
  /\ SpaceAppended = <<65, COLON, SP, LOWER_A, CR, LF>>

====
